---------------------------- MODULE Spec2Model ----------------------------
(***************************************************************************)
(* Model of the pooled Postgres adapter of prisma-bun-adapter              *)
(* (OptimizedBunPostgresDriverAdapter, src/unnamed/part_003): its          *)
(* connection pool (connections / availableConnections / waitQueue), the   *)
(* pooled operations queryRaw, executeRaw and executeScript, dispose, and  *)
(* the interactive transaction returned by startTransaction.               *)
(*                                                                         *)
(* The program runs on one event loop.  Every action below is the piece of *)
(* a handler that runs between two suspension points (awaits): the code up *)
(* to the first await of a call, or the continuation that runs when the    *)
(* awaited promise settles.  The host SQL client is a black box: every     *)
(* statement, reserve(), release() and end() it is asked for may succeed   *)
(* or fail.                                                                *)
(***************************************************************************)
EXTENDS Integers, Sequences, FiniteSets, TLC

\* ------------------------------------------------------------------ bounds
NumCallers == 3        \* top-level calls made on the adapter (one operation each)
MaxPool == 2           \* maxConnections is drawn from 1..MaxPool
MaxTx == 1             \* how many of the calls may be startTransaction
MaxTxQueries == 2      \* queryRaw/executeRaw calls made on one transaction
MaxFinCalls == 2       \* commit()/rollback() calls made on one transaction
MaxScriptStmts == 2    \* statements of an executeScript script
TxCallers == 2         \* calls on the adapter in the transaction specification
DisposeCallers == 2    \* calls on the adapter in the dispose specification
MaxTokens == 3         \* pieces of a SQL text
MaxMarkers == 15       \* the SQL texts `$1 ... $n` go up to n = MaxMarkers
MaxArgs == 3           \* arguments of a call (or as many as the highest marker)
MaxCalls == 2          \* queries of a run that reuse one SQL text
MaxSharedTokens == 2   \* pieces of a SQL text sent through the standard adapters
MaxArgValues == 2      \* argument values of a query
MaxRows == 3           \* rows of a result of the host client
MaxScriptLen == 4      \* characters of the text of a script
ScriptCallers == 2     \* executeScript calls in the script specification
MarkerIndexes == {1, 2, 10, 12}   \* the markers `$n` the pieces are drawn from

Callers == 1..NumCallers
FinSlots == 1..MaxFinCalls

\* ------------------------------------------------------------------- state
VARIABLES
    maxConnections,        \* this.maxConnections
    connections,           \* this.connections
    availableConnections,  \* this.availableConnections (the free-list)
    waitQueue,             \* this.waitQueue (the queued callers, oldest first)
    nextConn,              \* number of host connection objects constructed so far
    created,               \* connections whose createConnection() resolved
    ended,                 \* connections on which end() has been called
    pc,                    \* per call: where its handler is suspended
    kind,                  \* per call: which operation it is
    conn,                  \* per call: the local `connection` (0: none)
    stmts,                 \* per call: statements still to send (executeScript)
    result,                \* per call: how the call settled
    iso,                   \* per startTransaction: was an isolation level given
    finished,              \* per transaction: closure variable `finished`
    aborted,               \* per transaction: closure variable `aborted`
    queryFailed,           \* per transaction: a statement sent by queryRaw/executeRaw was rejected
    sent,                  \* per transaction: statements sent on `reserved`, in order
    pooledSent,            \* per transaction: statements it sent on the pooled handle `connection`
    inflight,              \* per transaction: runQuery calls awaiting the host
    closedRej,             \* per transaction: runQuery calls rejected as closed
    late,                  \* per transaction: fate of queries issued after a settled commit/rollback
    fin,                   \* per transaction: its commit()/rollback() calls
    relCount,              \* per transaction: calls of reserved.release()
    retCount,              \* per transaction: times its connection was given up
                           \*   (releaseConnection(connection); connection.end() on the standard adapter)
    dpc,                   \* dispose(): "idle", "ending", "resolved", "rejected"
    queuedAtDispose,       \* callers queued when dispose() was called and still queued
    creatingAtDispose,     \* connections being created when dispose() was called
    misrouted,             \* a release with a non-empty queue did not serve its head
    sqlTokens,             \* the SQL text of the queries of a run, as the pieces it is made of
    templateCache,         \* the module's templateCache Map (pooled adapter, part_003)
    stdTemplateCache,      \* the module's templateCache Map (standard adapters, part_005)
    hostCall,              \* the last invocation of the host client: connection(strings, ...values)
    calls,                 \* the queries made so far: provider and number of arguments
    argValues,             \* query.args of the queries of a run, as values
    bound,                 \* the values of the last invocation of the host client
    hostRows,              \* the rows the host client resolves the queries of a run with
    resultSet,             \* the SqlResultSet the last queryRaw returned
    script,                \* the text passed to the executeScript calls of a run
    scriptSent,            \* per executeScript call: the statements it sent on its
                           \*   local `connection`, in order
    released,              \* per pooled call: its calls of releaseConnection
    stdConnection,         \* this.connection of the standard adapter (0: null)
    stdOpen                \* the connections the standard adapter created and on
                           \*   which it has not called end()

poolVars == <<maxConnections, connections, availableConnections, waitQueue,
              nextConn, created, ended>>
callVars == <<pc, kind, conn, stmts, result, iso>>
txVars == <<finished, aborted, queryFailed, sent, pooledSent, inflight, closedRej, late, fin, relCount, retCount>>
dispVars == <<dpc, creatingAtDispose>>
valueVars == <<argValues, bound, hostRows, resultSet>>
translatorVars == <<sqlTokens, templateCache, stdTemplateCache, hostCall, calls, valueVars>>
scriptVars == <<script, scriptSent, released>>
stdVars == <<stdConnection, stdOpen>>
vars == <<poolVars, callVars, txVars, dispVars, queuedAtDispose, misrouted, translatorVars,
          scriptVars, stdVars>>

Range(s) == { s[i] : i \in 1..Len(s) }
Count(s, x) == Cardinality({ i \in 1..Len(s) : s[i] = x })

\* s.trim() of a text whose white space is the space character.
RECURSIVE Trim(_)
Trim(s) ==
    IF Len(s) > 0 /\ Head(s) = " " THEN Trim(Tail(s))
    ELSE IF Len(s) > 0 /\ s[Len(s)] = " " THEN Trim(SubSeq(s, 1, Len(s) - 1))
    ELSE s

\* text.split(";"): the pieces between the semicolons, the empty ones
\* included; piece is the piece being read.
RECURSIVE split(_, _)
split(text, piece) ==
    IF text = <<>> THEN <<piece>>
    ELSE IF Head(text) = ";" THEN <<piece>> \o split(Tail(text), <<>>)
    ELSE split(Tail(text), Append(piece, Head(text)))

\* A test that lets the blank pieces through.
keepStatement_Always(stmt) == TRUE

\* `stmt.trim()` as a condition: the test of the filter and of the loop.
keepStatement(stmt) == Trim(stmt) # <<>>

\* The texts executeScript(text) passes to the connection, in order: the
\* pieces that pass the filter and the test in the loop, trimmed.
scriptStatements(text) ==
    LET statements == SelectSeq(split(text, <<>>), keepStatement)
        passing == SelectSeq(statements, keepStatement)
    IN [i \in 1..Len(passing) |-> Trim(passing[i])]

IdleSlot == [call |-> "none", pc |-> "idle", action |-> "none",
             failed |-> FALSE, outcome |-> "none", afterFailure |-> FALSE,
             afterSettled |-> FALSE, stmtOk |-> TRUE, relOk |-> TRUE]

\* What a Map holds after `new Map()` or clear().
EmptyCache == [k \in {} |-> 0]

\* No invocation of the host client yet.
NoCall == [made |-> FALSE, strings |-> <<>>, values |-> <<>>, path |-> "none"]

\* The pool and the calls at construction.
PoolInit ==
    /\ connections = <<>>
    /\ availableConnections = <<>>
    /\ waitQueue = <<>>
    /\ nextConn = 0
    /\ created = {}
    /\ ended = {}
    /\ pc = [c \in Callers |-> "idle"]
    /\ kind = [c \in Callers |-> "none"]
    /\ conn = [c \in Callers |-> 0]
    /\ stmts = [c \in Callers |-> 0]
    /\ result = [c \in Callers |-> "none"]
    /\ iso = [c \in Callers |-> FALSE]
    /\ finished = [c \in Callers |-> FALSE]
    /\ aborted = [c \in Callers |-> FALSE]
    /\ queryFailed = [c \in Callers |-> FALSE]
    /\ sent = [c \in Callers |-> <<>>]
    /\ pooledSent = [c \in Callers |-> <<>>]
    /\ inflight = [c \in Callers |-> 0]
    /\ closedRej = [c \in Callers |-> 0]
    /\ late = [c \in Callers |-> "none"]
    /\ fin = [c \in Callers |-> [s \in FinSlots |-> IdleSlot]]
    /\ relCount = [c \in Callers |-> 0]
    /\ retCount = [c \in Callers |-> 0]
    /\ dpc = "idle"
    /\ queuedAtDispose = {}
    /\ creatingAtDispose = {}
    /\ misrouted = FALSE
    /\ scriptSent = [c \in Callers |-> <<>>]
    /\ released = [c \in Callers |-> 0]
    /\ stdConnection = 0
    /\ stdOpen = {}

\* No queryRaw has returned.
NoResultSet ==
    [made |-> FALSE, adapter |-> "none", tx |-> FALSE, columnTypes |-> <<>>, rows |-> <<>>]

\* No query text has been translated, no query has returned.
TranslatorInit ==
    /\ templateCache = EmptyCache
    /\ stdTemplateCache = EmptyCache
    /\ hostCall = NoCall
    /\ calls = <<>>
    /\ bound = <<>>
    /\ resultSet = NoResultSet

\* The runs that follow connections, transactions and SQL texts pass no
\* argument values and read no rows.
NoValues == argValues = <<>> /\ hostRows = <<>>

\* The runs that follow SQL texts and values call no executeScript.
NoScript == script = <<>>

\* A script of n statements.
RECURSIVE ScriptOf(_)
ScriptOf(n) == IF n = 0 THEN <<>> ELSE <<"a", ";">> \o ScriptOf(n - 1)

\* The scripts of the runs that follow the pool: without a statement, or of
\* MaxScriptStmts statements (queryRaw is the call that sends one statement).
PoolScripts == { ScriptOf(0), ScriptOf(MaxScriptStmts) }

Init ==
    /\ maxConnections \in 1..MaxPool
    /\ PoolInit
    /\ script \in PoolScripts
    /\ TranslatorInit
    /\ NoValues
    /\ sqlTokens = <<>>

\* -------------------------------------------------------------------- pool

\* getConnection, up to its first suspension: which of its three branches runs.
getConnection ==
    IF Len(availableConnections) > 0 THEN "pop"
    ELSE IF Len(connections) < maxConnections THEN "create"
    ELSE "wait"

\* A pop that leaves the returned connection in the free-list.
popAvailable_Peek(aq) == aq

\* availableConnections.pop(): the free-list after the pop.
popAvailable(aq) == SubSeq(aq, 1, Len(aq) - 1)

\* A release that parks the connection in the free-list whoever is waiting.
releaseConnection_AlwaysParks(k, pcf, connf) ==
    [aq |-> Append(availableConnections, k), wq |-> waitQueue, pc |-> pcf, conn |-> connf]

\* releaseConnection(k): the pool and the callers after the call.  pcf and
\* connf are the callers' positions and locals as the releasing handler
\* leaves them.
releaseConnection(k, pcf, connf) ==
    IF Len(waitQueue) > 0
    THEN [aq |-> availableConnections,
          wq |-> Tail(waitQueue),
          pc |-> [pcf EXCEPT ![Head(waitQueue)] = "handed"],
          conn |-> [connf EXCEPT ![Head(waitQueue)] = k]]
    ELSE [aq |-> Append(availableConnections, k),
          wq |-> waitQueue,
          pc |-> pcf,
          conn |-> connf]

\* The part of an action that performs releaseConnection(k).
Release(k, pcf, connf) ==
    LET r == releaseConnection(k, pcf, connf) IN
    /\ availableConnections' = r.aq
    /\ waitQueue' = r.wq
    /\ pc' = r.pc
    /\ conn' = r.conn
    /\ queuedAtDispose' = queuedAtDispose \cap Range(r.wq)
    /\ misrouted' = (misrouted \/
          (Len(waitQueue) > 0 /\
             ~(/\ r.wq = Tail(waitQueue)
               /\ r.aq = availableConnections
               /\ r.pc[Head(waitQueue)] = "handed"
               /\ r.conn[Head(waitQueue)] = k)))


\* A transaction runner that sends on the pooled handle.
txRunner_OnPooledHandle == "connection"

\* txRunner = (strings, ...values) => reserved(strings, ...values): the handle
\* the transaction's queries and its COMMIT/ROLLBACK are sent on.
txRunner == "reserved"

\* Transaction c sends stmt on the handle h: `reserved` or `connection`.
Send(c, h, stmt) ==
    /\ sent' = IF h = "reserved" THEN [sent EXCEPT ![c] = Append(sent[c], stmt)] ELSE sent
    /\ pooledSent' = IF h = "reserved" THEN pooledSent
                     ELSE [pooledSent EXCEPT ![c] = Append(pooledSent[c], stmt)]

\* ------------------------------------------------- calls made on the adapter

\* `const connection = await this.getConnection()` of call c, up to the
\* suspension: the free-list pop, the start of a creation, or the enqueueing.
\* Calls are numbered in the order in which they are issued.  The standard
\* adapter is another object, sharing nothing with this one: a run follows
\* one of the two adapters.
AwaitGetConnection(c) ==
    /\ pc[c] = "idle"
    /\ \A d \in Callers : d < c => pc[d] # "idle"
    /\ \A d \in Callers : kind[d] # "stdtx"
    /\ CASE getConnection = "pop" ->
              /\ conn' = [conn EXCEPT ![c] = availableConnections[Len(availableConnections)]]
              /\ availableConnections' = popAvailable(availableConnections)
              /\ pc' = [pc EXCEPT ![c] = "got"]
              /\ UNCHANGED <<waitQueue, nextConn>>
         [] getConnection = "create" ->
              /\ nextConn' = nextConn + 1
              /\ conn' = [conn EXCEPT ![c] = nextConn + 1]
              /\ pc' = [pc EXCEPT ![c] = "creating"]
              /\ UNCHANGED <<waitQueue, availableConnections>>
         [] getConnection = "wait" ->
              /\ waitQueue' = Append(waitQueue, c)
              /\ pc' = [pc EXCEPT ![c] = "waiting"]
              /\ UNCHANGED <<conn, availableConnections, nextConn>>
    /\ UNCHANGED <<translatorVars, scriptVars, stdVars, maxConnections, connections, created, ended, result,
                   txVars, dispVars, queuedAtDispose, misrouted>>

\* queryRaw and executeRaw: one statement on a pooled connection.  The two
\* differ only in how the result is shaped and the error wrapped.
queryRaw(c) ==
    /\ AwaitGetConnection(c)
    /\ kind' = [kind EXCEPT ![c] = "pooled"]
    /\ stmts' = [stmts EXCEPT ![c] = 1]
    /\ UNCHANGED iso

\* executeScript: the non-blank statements of the script, one after another.
executeScript(c) ==
    /\ AwaitGetConnection(c)
    /\ kind' = [kind EXCEPT ![c] = "script"]
    /\ stmts' = [stmts EXCEPT ![c] = Len(scriptStatements(script))]
    /\ UNCHANGED iso

\* startTransaction(isolationLevel?)
startTransaction(c) ==
    /\ Cardinality({ d \in Callers : kind[d] \in {"tx", "stdtx"} }) < MaxTx
    /\ AwaitGetConnection(c)
    /\ kind' = [kind EXCEPT ![c] = "tx"]
    /\ \E i \in BOOLEAN : iso' = [iso EXCEPT ![c] = i]
    /\ UNCHANGED stmts

\* createConnection() resolved: the connection joins this.connections and is
\* returned to the caller.
CreateResolved(c) ==
    /\ pc[c] = "creating"
    /\ connections' = Append(connections, conn[c])
    /\ created' = created \cup {conn[c]}
    /\ pc' = [pc EXCEPT ![c] = "got"]
    /\ UNCHANGED <<translatorVars, scriptVars, stdVars, maxConnections, availableConnections, waitQueue, nextConn, ended,
                   kind, conn, stmts, result, iso, txVars, dispVars, queuedAtDispose, misrouted>>

\* A failed creation that leaves its connection in this.connections.
CreateRejected_Counts(c) ==
    /\ pc[c] = "creating"
    /\ pc' = [pc EXCEPT ![c] = "done"]
    /\ conn' = [conn EXCEPT ![c] = 0]
    /\ result' = [result EXCEPT ![c] = "CreateFailed"]
    /\ connections' = Append(connections, conn[c])
    /\ UNCHANGED <<translatorVars, scriptVars, stdVars, maxConnections, availableConnections,
                   waitQueue, nextConn, created, ended, kind, stmts, iso, txVars, dispVars,
                   queuedAtDispose, misrouted>>

\* createConnection() rejected: the error reaches the caller of the operation.
CreateRejected(c) ==
    /\ pc[c] = "creating"
    /\ pc' = [pc EXCEPT ![c] = "done"]
    /\ conn' = [conn EXCEPT ![c] = 0]
    /\ result' = [result EXCEPT ![c] = "CreateFailed"]
    /\ UNCHANGED <<translatorVars, scriptVars, stdVars, poolVars, kind, stmts, iso, txVars, dispVars, queuedAtDispose, misrouted>>

\* `await connection(strings)` of a pooled call that has n statements left to
\* send: an executeScript call sends the statement of its script that is next.
SendStatement(c, n) ==
    LET statements == scriptStatements(script) IN
    scriptSent' = IF kind[c] = "script"
                  THEN [scriptSent EXCEPT ![c] =
                          Append(@, statements[Len(statements) - n + 1])]
                  ELSE scriptSent

\* `finally { this.releaseConnection(connection) }` of pooled call c.
FinallyRelease(c) ==
    /\ Release(conn[c], [pc EXCEPT ![c] = "done"], [conn EXCEPT ![c] = 0])
    /\ released' = [released EXCEPT ![c] = @ + 1]

\* A pooled operation resumes with its connection: it sends its first
\* statement, or (a script without statements) goes straight to `finally`.
PooledResume(c) ==
    /\ pc[c] \in {"got", "handed"}
    /\ kind[c] \in {"pooled", "script"}
    /\ IF stmts[c] = 0
       THEN /\ FinallyRelease(c)
            /\ result' = [result EXCEPT ![c] = "ok"]
            /\ UNCHANGED scriptSent
       ELSE /\ pc' = [pc EXCEPT ![c] = "running"]
            /\ SendStatement(c, stmts[c])
            /\ UNCHANGED <<availableConnections, waitQueue, conn, result, queuedAtDispose,
                           misrouted, released>>
    /\ UNCHANGED <<translatorVars, stdVars, script, maxConnections, connections, nextConn, created, ended,
                   kind, stmts, iso, txVars, dispVars>>

\* The statement in flight resolved: the next one is sent, or the operation
\* returns through `finally { this.releaseConnection(connection) }`.
StatementResolved(c) ==
    /\ pc[c] = "running"
    /\ stmts' = [stmts EXCEPT ![c] = stmts[c] - 1]
    /\ IF stmts[c] = 1
       THEN /\ FinallyRelease(c)
            /\ result' = [result EXCEPT ![c] = "ok"]
            /\ UNCHANGED scriptSent
       ELSE /\ SendStatement(c, stmts[c] - 1)
            /\ UNCHANGED <<availableConnections, waitQueue, pc, conn, result, queuedAtDispose,
                           misrouted, released>>
    /\ UNCHANGED <<translatorVars, stdVars, script, maxConnections, connections, nextConn, created, ended,
                   kind, iso, txVars, dispVars>>

\* The statement in flight rejected: `finally` releases, the error propagates.
StatementRejected(c) ==
    /\ pc[c] = "running"
    /\ stmts' = [stmts EXCEPT ![c] = 0]
    /\ FinallyRelease(c)
    /\ result' = [result EXCEPT ![c] = "StatementFailed"]
    /\ UNCHANGED <<translatorVars, stdVars, script, scriptSent, maxConnections, connections, nextConn,
                   created, ended, kind, iso, txVars, dispVars>>

\* ------------------------------------------------ startTransaction, continued

\* startTransaction resumes with its connection and calls connection.reserve().
TxReserve(c) ==
    /\ pc[c] \in {"got", "handed"}
    /\ kind[c] = "tx"
    /\ pc' = [pc EXCEPT ![c] = "reserving"]
    /\ UNCHANGED <<translatorVars, scriptVars, stdVars, poolVars, kind, conn, stmts, result, iso, txVars, dispVars, queuedAtDispose, misrouted>>

\* reserve() resolved: BEGIN is sent on the reserved connection.
ReserveResolved(c) ==
    /\ pc[c] = "reserving"
    /\ Send(c, "reserved", "BEGIN")
    /\ pc' = [pc EXCEPT ![c] = "beginning"]
    /\ UNCHANGED <<translatorVars, scriptVars, stdVars, poolVars, kind, conn, stmts, result, iso, finished, aborted, queryFailed,
                   inflight, closedRej, late, fin, relCount, retCount, dispVars, queuedAtDispose, misrouted>>

\* A failed reserve() that rethrows without releasing the connection.
ReserveRejected_KeepsConnection(c) ==
    /\ pc[c] = "reserving"
    /\ pc' = [pc EXCEPT ![c] = "done"]
    /\ result' = [result EXCEPT ![c] = "ReserveFailed"]
    /\ UNCHANGED <<translatorVars, scriptVars, stdVars, poolVars, kind, conn, stmts, iso, txVars,
                   dispVars, queuedAtDispose, misrouted>>

\* reserve() rejected: the connection is released and the error rethrown.
ReserveRejected(c) ==
    /\ pc[c] = "reserving"
    /\ Release(conn[c], [pc EXCEPT ![c] = "done"], [conn EXCEPT ![c] = 0])
    /\ result' = [result EXCEPT ![c] = "ReserveFailed"]
    /\ retCount' = [retCount EXCEPT ![c] = retCount[c] + 1]
    /\ UNCHANGED <<translatorVars, scriptVars, stdVars, maxConnections, connections, nextConn, created, ended, kind, stmts,
                   iso, finished, aborted, queryFailed, sent, pooledSent, inflight, closedRej, late, fin, relCount,
                   dispVars>>

\* BEGIN resolved: the isolation-level statement is sent if a level was
\* given, else the Transaction object is returned.
BeginResolved(c) ==
    /\ pc[c] = "beginning"
    /\ IF iso[c]
       THEN /\ Send(c, "reserved", "SET ISOLATION")
            /\ pc' = [pc EXCEPT ![c] = "isolating"]
            /\ UNCHANGED result
       ELSE /\ pc' = [pc EXCEPT ![c] = "active"]
            /\ result' = [result EXCEPT ![c] = "transaction"]
            /\ UNCHANGED <<sent, pooledSent>>
    /\ UNCHANGED <<translatorVars, scriptVars, stdVars, poolVars, kind, conn, stmts, iso, finished, aborted, queryFailed,
                   inflight, closedRej, late, fin, relCount, retCount, dispVars, queuedAtDispose, misrouted>>

\* The isolation-level statement resolved: the Transaction object is returned.
IsolationResolved(c) ==
    /\ pc[c] = "isolating"
    /\ pc' = [pc EXCEPT ![c] = "active"]
    /\ result' = [result EXCEPT ![c] = "transaction"]
    /\ UNCHANGED <<translatorVars, scriptVars, stdVars, poolVars, kind, conn, stmts, iso, txVars, dispVars, queuedAtDispose, misrouted>>

\* BEGIN or the isolation-level statement rejected: `await releaseReserved()`
\* calls reserved.release() and suspends.
BeginRejected(c) ==
    /\ pc[c] \in {"beginning", "isolating"}
    /\ relCount' = [relCount EXCEPT ![c] = relCount[c] + 1]
    /\ result' = [result EXCEPT ![c] =
                     IF pc[c] = "beginning" THEN "BeginFailed" ELSE "IsolationFailed"]
    /\ pc' = [pc EXCEPT ![c] = "cleanup"]
    /\ UNCHANGED <<translatorVars, scriptVars, stdVars, poolVars, kind, conn, stmts, iso, finished, aborted, queryFailed, sent, pooledSent,
                   inflight, closedRej, late, fin, retCount, dispVars, queuedAtDispose, misrouted>>

\* releaseReserved() settled (its errors are ignored): the connection is
\* released and the BEGIN error rethrown.
CleanupDone(c) ==
    /\ pc[c] = "cleanup"
    /\ Release(conn[c], [pc EXCEPT ![c] = "done"], [conn EXCEPT ![c] = 0])
    /\ retCount' = [retCount EXCEPT ![c] = retCount[c] + 1]
    /\ UNCHANGED <<translatorVars, scriptVars, stdVars, maxConnections, connections, nextConn, created, ended, kind, stmts,
                   result, iso, finished, aborted, queryFailed, sent, pooledSent, inflight, closedRej, late, fin,
                   relCount, dispVars>>


\* ------------------------------------------------- calls made on a transaction

SomeSettled(c) == \E s \in FinSlots : fin[c][s].pc = "settled"

\* The statement of the n-th queryRaw/executeRaw call made on a transaction.
QueryStmt(n) ==
    CASE n = 1 -> "QUERY 1"
      [] n = 2 -> "QUERY 2"
      [] n = 3 -> "QUERY 3"
      [] OTHER -> "QUERY 4"

Queries == { QueryStmt(n) : n \in 1..(MaxTxQueries + 1) }

QueriesIssued(c) ==
    Cardinality({ i \in 1..Len(sent[c]) : sent[c][i] \in Queries })
        + Cardinality({ i \in 1..Len(pooledSent[c]) : pooledSent[c][i] \in Queries })
        + closedRej[c]


\* A runQuery without its `finished` check.
runQueryClosed_Never(c) == FALSE

\* runQuery: `if (finished) throw new Error("Transaction is already closed")`.
runQueryClosed(c) == finished[c]

\* A finalize without its `finished` check.
finalizeReturnsEarly_Never(c) == FALSE

\* finalize: `if (finished) return`.
finalizeReturnsEarly(c) == finished[c]

\* A commit() that does not look at `aborted`.
commitAction_IgnoresAborted(c) == "commit"

\* commit(): `if (aborted)` it finalizes with "rollback" and then throws
\* "Transaction rolled back due to a previous error"; else with "commit".
commitAction(c) == IF aborted[c] THEN "rollback" ELSE "commit"

\* What a commit()/rollback() call settles with, given the finalize action
\* it asked for and whether its COMMIT statement failed.
CallOutcome(call, action, failed) ==
    IF failed THEN "CommitFailed"
    ELSE IF call = "commit" /\ action = "rollback" THEN "RolledBack"
    ELSE "ok"

\* A finalize that lets the error of ROLLBACK through as it does that of COMMIT.
finalizeKeepsError_Always(action, ok) == ~ok

\* finalize: the error of a failed COMMIT propagates, that of a failed
\* ROLLBACK is swallowed by the inner try/catch.
finalizeKeepsError(action, ok) == ~ok /\ action = "commit"

\* A releaseReserved without its try/catch.
releaseReservedThrows_Unhandled(ok) == ~ok

\* releaseReserved: whether it throws when reserved.release() failed (thrown
\* or rejected); its try/catch ignores the error.
releaseReservedThrows(ok) == FALSE

\* Transaction.queryRaw / executeRaw, through runQuery, up to the await of the
\* host call: rejected at once on a closed transaction, else the statement
\* is sent on the reserved connection.
runQuery(c) ==
    /\ pc[c] = "active"
    /\ kind[c] = "tx"
    /\ QueriesIssued(c) < MaxTxQueries
    /\ IF runQueryClosed(c)
       THEN /\ closedRej' = [closedRej EXCEPT ![c] = closedRej[c] + 1]
            /\ late' = [late EXCEPT ![c] =
                          IF SomeSettled(c) /\ late[c] = "none" THEN "closed" ELSE late[c]]
            /\ UNCHANGED <<sent, pooledSent, inflight>>
       ELSE /\ Send(c, txRunner, QueryStmt(QueriesIssued(c) + 1))
            /\ inflight' = [inflight EXCEPT ![c] = inflight[c] + 1]
            /\ late' = [late EXCEPT ![c] = IF SomeSettled(c) THEN "sent" ELSE late[c]]
            /\ UNCHANGED closedRej
    /\ UNCHANGED <<translatorVars, scriptVars, stdVars, poolVars, callVars, finished, aborted, queryFailed, fin, relCount, retCount,
                   dispVars, queuedAtDispose, misrouted>>

\* A transaction query resolved.
QueryResolved(c) ==
    /\ inflight[c] > 0
    /\ inflight' = [inflight EXCEPT ![c] = inflight[c] - 1]
    /\ UNCHANGED <<translatorVars, scriptVars, stdVars, poolVars, callVars, finished, aborted, queryFailed, sent, pooledSent, closedRej, late, fin,
                   relCount, retCount, dispVars, queuedAtDispose, misrouted>>

\* A transaction query rejected: runQuery's catch marks the transaction aborted.
QueryRejected(c) ==
    /\ inflight[c] > 0
    /\ inflight' = [inflight EXCEPT ![c] = inflight[c] - 1]
    /\ aborted' = [aborted EXCEPT ![c] = TRUE]
    /\ queryFailed' = [queryFailed EXCEPT ![c] = TRUE]
    /\ UNCHANGED <<translatorVars, scriptVars, stdVars, poolVars, callVars, finished, sent, pooledSent, closedRej, late, fin,
                   relCount, retCount, dispVars, queuedAtDispose, misrouted>>

\* finalize(action), called by commit()/rollback() call s of transaction c, up
\* to its first await: it returns at once when `finished`, else sets
\* `finished` and sends COMMIT or ROLLBACK on the reserved connection.
finalize(c, s, call, action) ==
    /\ pc[c] = "active"
    /\ kind[c] = "tx"
    /\ fin[c][s].pc = "idle"
    /\ \A r \in FinSlots : r < s => fin[c][r].pc # "idle"
    /\ IF finalizeReturnsEarly(c)
       THEN /\ fin' = [fin EXCEPT ![c][s] =
                         [call |-> call, pc |-> "settled", action |-> "none",
                          failed |-> FALSE, outcome |-> CallOutcome(call, action, FALSE),
                          afterFailure |-> queryFailed[c],
                          afterSettled |-> SomeSettled(c),
                          stmtOk |-> TRUE, relOk |-> TRUE]]
            /\ UNCHANGED <<finished, sent, pooledSent>>
       ELSE /\ finished' = [finished EXCEPT ![c] = TRUE]
            /\ Send(c, txRunner, IF action = "commit" THEN "COMMIT" ELSE "ROLLBACK")
            /\ fin' = [fin EXCEPT ![c][s] =
                         [call |-> call, pc |-> "statement", action |-> action,
                          failed |-> FALSE, outcome |-> "none",
                          afterFailure |-> queryFailed[c],
                          afterSettled |-> SomeSettled(c),
                          stmtOk |-> TRUE, relOk |-> TRUE]]
    /\ UNCHANGED <<translatorVars, scriptVars, stdVars, poolVars, callVars, aborted, queryFailed, inflight, closedRej, late,
                   relCount, retCount, dispVars, queuedAtDispose, misrouted>>

\* Transaction.commit()
commit(c, s) == finalize(c, s, "commit", commitAction(c))

\* Transaction.rollback()
rollback(c, s) == finalize(c, s, "rollback", "rollback")

\* The COMMIT/ROLLBACK statement settled.  A ROLLBACK error is swallowed, a
\* COMMIT error is kept to be rethrown; either way `finally` starts with
\* `await releaseReserved()`, which calls reserved.release() and suspends.
FinalStatementSettled(c, s, ok) ==
    /\ kind[c] = "tx"
    /\ fin[c][s].pc = "statement"
    /\ fin' = [fin EXCEPT ![c][s].pc = "releasing",
                          ![c][s].failed = finalizeKeepsError(fin[c][s].action, ok),
                          ![c][s].stmtOk = ok]
    /\ relCount' = [relCount EXCEPT ![c] = relCount[c] + 1]
    /\ UNCHANGED <<translatorVars, scriptVars, stdVars, poolVars, callVars, finished, aborted, queryFailed, sent, pooledSent, inflight, closedRej,
                   late, retCount, dispVars, queuedAtDispose, misrouted>>

FinalStatementResolved(c, s) == FinalStatementSettled(c, s, TRUE)

FinalStatementRejected(c, s) == FinalStatementSettled(c, s, FALSE)

\* reserved.release() settled, well (ok) or not: releaseReserved() returns,
\* this.releaseConnection(connection) runs and the commit()/rollback() call
\* settles.
FinalizeReleaseSettled(c, s, ok) ==
    /\ kind[c] = "tx"
    /\ fin[c][s].pc = "releasing"
    /\ IF releaseReservedThrows(ok)
       THEN /\ fin' = [fin EXCEPT ![c][s].pc = "settled",
                                  ![c][s].relOk = ok,
                                  ![c][s].outcome = "CleanupFailed"]
            /\ UNCHANGED <<availableConnections, waitQueue, pc, conn, retCount,
                           queuedAtDispose, misrouted>>
       ELSE /\ Release(conn[c], pc, conn)
            /\ retCount' = [retCount EXCEPT ![c] = retCount[c] + 1]
            /\ fin' = [fin EXCEPT ![c][s].pc = "settled",
                                  ![c][s].relOk = ok,
                                  ![c][s].outcome =
                                      CallOutcome(fin[c][s].call, fin[c][s].action,
                                                  fin[c][s].failed)]
    /\ UNCHANGED <<translatorVars, scriptVars, stdVars, maxConnections, connections, nextConn, created, ended, kind, stmts,
                   result, iso, finished, aborted, queryFailed, sent, pooledSent, inflight, closedRej, late,
                   relCount, dispVars>>

FinalizeReleased(c, s) == FinalizeReleaseSettled(c, s, TRUE)

FinalizeReleaseFailed(c, s) == FinalizeReleaseSettled(c, s, FALSE)

\* ---------------------------------- the standard adapter's transaction
\* BaseBunDriverAdapter.startTransaction (src/unnamed/part_005) opens a
\* connection of its own for every transaction and ends it in finalize.

\* startTransaction(isolationLevel?), up to `await this.createConnection()`.
stdStartTransaction(c) ==
    /\ pc[c] = "idle"
    /\ \A d \in Callers : d < c => pc[d] # "idle"
    /\ Cardinality({ d \in Callers : kind[d] \in {"tx", "stdtx"} }) < MaxTx
    /\ kind' = [kind EXCEPT ![c] = "stdtx"]
    /\ \E i \in BOOLEAN : iso' = [iso EXCEPT ![c] = i]
    /\ nextConn' = nextConn + 1
    /\ conn' = [conn EXCEPT ![c] = nextConn + 1]
    /\ pc' = [pc EXCEPT ![c] = "sCreating"]
    /\ UNCHANGED <<translatorVars, scriptVars, stdVars, maxConnections, connections, availableConnections, waitQueue, created,
                   ended, stmts, result, txVars, dispVars, queuedAtDispose, misrouted>>

\* createConnection() settled: connection.reserve() is called, or the error
\* reaches the caller.
StdCreateSettled(c, ok) ==
    /\ pc[c] = "sCreating"
    /\ IF ok
       THEN /\ pc' = [pc EXCEPT ![c] = "sReserving"]
            /\ stdOpen' = stdOpen \cup {conn[c]}
            /\ UNCHANGED <<conn, result>>
       ELSE /\ pc' = [pc EXCEPT ![c] = "done"]
            /\ conn' = [conn EXCEPT ![c] = 0]
            /\ result' = [result EXCEPT ![c] = "CreateFailed"]
            /\ UNCHANGED stdOpen
    /\ UNCHANGED <<translatorVars, scriptVars, stdConnection, poolVars, kind, stmts, iso, txVars, dispVars, queuedAtDispose, misrouted>>

StdCreateResolved(c) == StdCreateSettled(c, TRUE)

StdCreateRejected(c) == StdCreateSettled(c, FALSE)

\* reserve() resolved: BEGIN is sent on the reserved connection.
StdReserveResolved(c) ==
    /\ pc[c] = "sReserving"
    /\ Send(c, "reserved", "BEGIN")
    /\ pc' = [pc EXCEPT ![c] = "sBeginning"]
    /\ UNCHANGED <<translatorVars, scriptVars, stdVars, poolVars, kind, conn, stmts, result, iso, finished, aborted, queryFailed,
                   inflight, closedRej, late, fin, relCount, retCount, dispVars,
                   queuedAtDispose, misrouted>>

\* reserve() rejected: `await connection.end()` (its errors ignored), then the
\* error is rethrown.
StdReserveRejected(c) ==
    /\ pc[c] = "sReserving"
    /\ retCount' = [retCount EXCEPT ![c] = retCount[c] + 1]
    /\ stdOpen' = stdOpen \ {conn[c]}
    /\ result' = [result EXCEPT ![c] = "ReserveFailed"]
    /\ pc' = [pc EXCEPT ![c] = "sEnding"]
    /\ UNCHANGED <<translatorVars, scriptVars, stdConnection, poolVars, kind, conn, stmts, iso, finished, aborted, queryFailed, sent, pooledSent,
                   inflight, closedRej, late, fin, relCount, dispVars,
                   queuedAtDispose, misrouted>>

\* BEGIN resolved: the isolation-level statement is sent if a level was given
\* (the provider is not sqlite), else the Transaction object is returned.
StdBeginResolved(c) ==
    /\ pc[c] = "sBeginning"
    /\ IF iso[c]
       THEN /\ Send(c, "reserved", "SET ISOLATION")
            /\ pc' = [pc EXCEPT ![c] = "sIsolating"]
            /\ UNCHANGED result
       ELSE /\ pc' = [pc EXCEPT ![c] = "active"]
            /\ result' = [result EXCEPT ![c] = "transaction"]
            /\ UNCHANGED <<sent, pooledSent>>
    /\ UNCHANGED <<translatorVars, scriptVars, stdVars, poolVars, kind, conn, stmts, iso, finished, aborted, queryFailed,
                   inflight, closedRej, late, fin, relCount, retCount, dispVars,
                   queuedAtDispose, misrouted>>

\* The isolation-level statement resolved: the Transaction object is returned.
StdIsolationResolved(c) ==
    /\ pc[c] = "sIsolating"
    /\ pc' = [pc EXCEPT ![c] = "active"]
    /\ result' = [result EXCEPT ![c] = "transaction"]
    /\ UNCHANGED <<translatorVars, scriptVars, stdVars, poolVars, kind, conn, stmts, iso, txVars, dispVars, queuedAtDispose,
                   misrouted>>

\* BEGIN or the isolation-level statement rejected: finalizeResources() starts
\* with `await releaseReserved()`.
StdBeginRejected(c) ==
    /\ pc[c] \in {"sBeginning", "sIsolating"}
    /\ relCount' = [relCount EXCEPT ![c] = relCount[c] + 1]
    /\ result' = [result EXCEPT ![c] =
                     IF pc[c] = "sBeginning" THEN "BeginFailed" ELSE "IsolationFailed"]
    /\ pc' = [pc EXCEPT ![c] = "sReleasing"]
    /\ UNCHANGED <<translatorVars, scriptVars, stdVars, poolVars, kind, conn, stmts, iso, finished, aborted, queryFailed, sent, pooledSent,
                   inflight, closedRej, late, fin, retCount, dispVars,
                   queuedAtDispose, misrouted>>

\* releaseReserved() settled: closeConnection() calls connection.end().
StdCleanupReleased(c) ==
    /\ pc[c] = "sReleasing"
    /\ retCount' = [retCount EXCEPT ![c] = retCount[c] + 1]
    /\ stdOpen' = stdOpen \ {conn[c]}
    /\ pc' = [pc EXCEPT ![c] = "sEnding"]
    /\ UNCHANGED <<translatorVars, scriptVars, stdConnection, poolVars, kind, conn, stmts, result, iso, finished, aborted, queryFailed, sent, pooledSent,
                   inflight, closedRej, late, fin, relCount, dispVars,
                   queuedAtDispose, misrouted>>

\* connection.end() settled (its errors are ignored): the error is rethrown.
StdCleanupDone(c) ==
    /\ pc[c] = "sEnding"
    /\ pc' = [pc EXCEPT ![c] = "done"]
    /\ conn' = [conn EXCEPT ![c] = 0]
    /\ UNCHANGED <<translatorVars, scriptVars, stdVars, poolVars, kind, stmts, result, iso, txVars, dispVars, queuedAtDispose,
                   misrouted>>

\* A runQuery without its `finished` check.
stdRunQueryClosed_Never(c) == FALSE

\* runQuery: `if (finished) throw new Error("Transaction is already closed")`.
stdRunQueryClosed(c) == finished[c]

\* finalize: `if (finished) return`.
stdFinalizeReturnsEarly(c) == finished[c]

\* commit(): `if (finished) return`.
stdCommitReturnsEarly(c) == finished[c]

\* commit(): `if (aborted)` it finalizes with "rollback" and then throws
\* "Transaction rolled back due to a previous error"; else with "commit".
stdCommitAction(c) == IF aborted[c] THEN "rollback" ELSE "commit"

\* Transaction.queryRaw / executeRaw, through runQuery, up to the await of the
\* host call.
stdRunQuery(c) ==
    /\ pc[c] = "active"
    /\ kind[c] = "stdtx"
    /\ QueriesIssued(c) < MaxTxQueries
    /\ IF stdRunQueryClosed(c)
       THEN /\ closedRej' = [closedRej EXCEPT ![c] = closedRej[c] + 1]
            /\ late' = [late EXCEPT ![c] =
                          IF SomeSettled(c) /\ late[c] = "none" THEN "closed" ELSE late[c]]
            /\ UNCHANGED <<sent, pooledSent, inflight>>
       ELSE /\ Send(c, txRunner, QueryStmt(QueriesIssued(c) + 1))
            /\ inflight' = [inflight EXCEPT ![c] = inflight[c] + 1]
            /\ late' = [late EXCEPT ![c] = IF SomeSettled(c) THEN "sent" ELSE late[c]]
            /\ UNCHANGED closedRej
    /\ UNCHANGED <<translatorVars, scriptVars, stdVars, poolVars, callVars, finished, aborted, queryFailed, fin, relCount, retCount,
                   dispVars, queuedAtDispose, misrouted>>

\* finalize(action), called by commit()/rollback() call s, up to its first
\* await: it returns at once when `finished` (as does commit() itself), else
\* sends COMMIT or ROLLBACK; `finished` is set only when the statement settled.
stdFinalize(c, s, call, action, early) ==
    /\ pc[c] = "active"
    /\ kind[c] = "stdtx"
    /\ fin[c][s].pc = "idle"
    /\ \A r \in FinSlots : r < s => fin[c][r].pc # "idle"
    /\ IF early \/ stdFinalizeReturnsEarly(c)
       THEN /\ fin' = [fin EXCEPT ![c][s] =
                         [call |-> call, pc |-> "settled", action |-> "none",
                          failed |-> FALSE,
                          outcome |-> IF early THEN "ok" ELSE CallOutcome(call, action, FALSE),
                          afterFailure |-> queryFailed[c],
                          afterSettled |-> SomeSettled(c),
                          stmtOk |-> TRUE, relOk |-> TRUE]]
            /\ UNCHANGED <<sent, pooledSent>>
       ELSE /\ Send(c, txRunner, IF action = "commit" THEN "COMMIT" ELSE "ROLLBACK")
            /\ fin' = [fin EXCEPT ![c][s] =
                         [call |-> call, pc |-> "statement", action |-> action,
                          failed |-> FALSE, outcome |-> "none",
                          afterFailure |-> queryFailed[c],
                          afterSettled |-> SomeSettled(c),
                          stmtOk |-> TRUE, relOk |-> TRUE]]
    /\ UNCHANGED <<translatorVars, scriptVars, stdVars, poolVars, callVars, finished, aborted, queryFailed, inflight, closedRej, late,
                   relCount, retCount, dispVars, queuedAtDispose, misrouted>>

\* Transaction.commit()
stdCommit(c, s) == stdFinalize(c, s, "commit", stdCommitAction(c), stdCommitReturnsEarly(c))

\* Transaction.rollback()
stdRollback(c, s) == stdFinalize(c, s, "rollback", "rollback", FALSE)

\* The COMMIT/ROLLBACK statement settled: `finally` sets `finished` and starts
\* finalizeResources() with `await releaseReserved()`.
StdFinalStatementSettled(c, s, ok) ==
    /\ kind[c] = "stdtx"
    /\ fin[c][s].pc = "statement"
    /\ finished' = [finished EXCEPT ![c] = TRUE]
    /\ fin' = [fin EXCEPT ![c][s].pc = "releasing",
                          ![c][s].failed = (~ok /\ fin[c][s].action = "commit")]
    /\ relCount' = [relCount EXCEPT ![c] = relCount[c] + 1]
    /\ UNCHANGED <<translatorVars, scriptVars, stdVars, poolVars, callVars, aborted, queryFailed, sent, pooledSent, inflight, closedRej,
                   late, retCount, dispVars, queuedAtDispose, misrouted>>

StdFinalStatementResolved(c, s) == StdFinalStatementSettled(c, s, TRUE)

StdFinalStatementRejected(c, s) == StdFinalStatementSettled(c, s, FALSE)

\* releaseReserved() settled: closeConnection() calls connection.end().
StdFinalizeReleased(c, s) ==
    /\ kind[c] = "stdtx"
    /\ fin[c][s].pc = "releasing"
    /\ fin' = [fin EXCEPT ![c][s].pc = "closing"]
    /\ retCount' = [retCount EXCEPT ![c] = retCount[c] + 1]
    /\ stdOpen' = stdOpen \ {conn[c]}
    /\ UNCHANGED <<translatorVars, scriptVars, stdConnection, poolVars, callVars, finished, aborted, queryFailed, sent, pooledSent, inflight, closedRej,
                   late, relCount, dispVars, queuedAtDispose, misrouted>>

\* connection.end() settled (its errors are ignored): finalize returns.  After
\* a failed COMMIT, commit()'s catch calls finalize("rollback"), which returns
\* at once because `finished` is set, and the COMMIT error is rethrown.
StdFinalizeClosed(c, s) ==
    /\ kind[c] = "stdtx"
    /\ fin[c][s].pc = "closing"
    /\ fin' = [fin EXCEPT ![c][s].pc = "settled",
                          ![c][s].outcome =
                              CallOutcome(fin[c][s].call, fin[c][s].action, fin[c][s].failed)]
    /\ UNCHANGED <<translatorVars, scriptVars, stdVars, poolVars, callVars, finished, aborted, queryFailed, sent, pooledSent, inflight, closedRej,
                   late, relCount, retCount, dispVars, queuedAtDispose, misrouted>>


\* ------------------------------------- the standard adapter's shared connection

\* queryRaw, executeRaw and executeScript of the standard adapter, up to the
\* await in getConnection(): `if (!this.connection)` a connection is being
\* created, else this.connection is returned.  The connection is never
\* given back: the calls share it.
stdQueryRaw(c) ==
    /\ pc[c] = "idle"
    /\ \A d \in Callers : d < c => pc[d] # "idle"
    /\ \A d \in Callers : kind[d] \in {"none", "stdq", "stdtx"}
    /\ kind' = [kind EXCEPT ![c] = "stdq"]
    /\ IF stdConnection = 0
       THEN /\ nextConn' = nextConn + 1
            /\ conn' = [conn EXCEPT ![c] = nextConn + 1]
            /\ pc' = [pc EXCEPT ![c] = "sqCreating"]
       ELSE /\ conn' = [conn EXCEPT ![c] = stdConnection]
            /\ pc' = [pc EXCEPT ![c] = "sqRunning"]
            /\ UNCHANGED nextConn
    /\ UNCHANGED <<translatorVars, scriptVars, stdVars, maxConnections, connections,
                   availableConnections, waitQueue, created, ended, stmts, result, iso,
                   txVars, dispVars, queuedAtDispose, misrouted>>

\* createConnection() resolved: `this.connection = await this.createConnection()`
\* and the statement is sent on it.
StdQueryCreateResolved(c) ==
    /\ pc[c] = "sqCreating"
    /\ stdConnection' = conn[c]
    /\ stdOpen' = stdOpen \cup {conn[c]}
    /\ pc' = [pc EXCEPT ![c] = "sqRunning"]
    /\ UNCHANGED <<translatorVars, scriptVars, poolVars, kind, conn, stmts, result, iso,
                   txVars, dispVars, queuedAtDispose, misrouted>>

\* createConnection() rejected: the error reaches the caller.
StdQueryCreateRejected(c) ==
    /\ pc[c] = "sqCreating"
    /\ pc' = [pc EXCEPT ![c] = "done"]
    /\ conn' = [conn EXCEPT ![c] = 0]
    /\ result' = [result EXCEPT ![c] = "CreateFailed"]
    /\ UNCHANGED <<translatorVars, scriptVars, stdVars, poolVars, kind, stmts, iso,
                   txVars, dispVars, queuedAtDispose, misrouted>>

\* The statement settled: the call returns its rows or throws the error.
StdQuerySettled(c, ok) ==
    /\ pc[c] = "sqRunning"
    /\ pc' = [pc EXCEPT ![c] = "done"]
    /\ conn' = [conn EXCEPT ![c] = 0]
    /\ result' = [result EXCEPT ![c] = IF ok THEN "ok" ELSE "StatementFailed"]
    /\ UNCHANGED <<translatorVars, scriptVars, stdVars, poolVars, kind, stmts, iso,
                   txVars, dispVars, queuedAtDispose, misrouted>>

StdQueryResolved(c) == StdQuerySettled(c, TRUE)

StdQueryRejected(c) == StdQuerySettled(c, FALSE)

\* ----------------------------------------------------------------- dispose

\* dispose(), up to `await Promise.all(this.connections.map(conn => conn.end()))`:
\* end() is called on every connection of this.connections.
dispose ==
    /\ dpc = "idle"
    /\ ended' = ended \cup Range(connections)
    /\ dpc' = "ending"
    /\ queuedAtDispose' = Range(waitQueue)
    /\ creatingAtDispose' = { conn[c] : c \in { d \in Callers : pc[d] = "creating" } }
    /\ UNCHANGED <<translatorVars, scriptVars, stdVars, maxConnections, connections, availableConnections, waitQueue,
                   nextConn, created, callVars, txVars, misrouted>>

\* Every end() resolved: the lists are cleared and the queued callers rejected
\* with "Adapter disposed".
DisposeEndsResolved ==
    /\ dpc = "ending"
    /\ connections' = <<>>
    /\ availableConnections' = <<>>
    /\ pc' = [c \in Callers |-> IF c \in Range(waitQueue) THEN "done" ELSE pc[c]]
    /\ result' = [c \in Callers |->
                    IF c \in Range(waitQueue) THEN "AdapterDisposed" ELSE result[c]]
    /\ waitQueue' = <<>>
    /\ queuedAtDispose' = {}
    /\ dpc' = "resolved"
    /\ templateCache' = EmptyCache
    /\ UNCHANGED <<sqlTokens, stdTemplateCache, hostCall, calls, valueVars, scriptVars, stdVars>>
    /\ UNCHANGED <<maxConnections, nextConn, created, ended, kind, conn, stmts, iso,
                   txVars, creatingAtDispose, misrouted>>

\* Some end() rejected: Promise.all rejects and dispose() throws at its await.
DisposeEndsRejected ==
    /\ dpc = "ending"
    /\ ended # {}
    /\ dpc' = "rejected"
    /\ UNCHANGED <<translatorVars, scriptVars, stdVars, poolVars, callVars, txVars, creatingAtDispose, queuedAtDispose,
                   misrouted>>

\* ------------------------------------------- placeholder translation (text)
\* SQL text is a sequence of characters (one-character strings; "NL" is the
\* newline).  The translator rewrites it into the text of a template, with a
\* marker ${idx} at every bound slot, and splits that text at the markers.

DigitChars == <<"0", "1", "2", "3", "4", "5", "6", "7", "8", "9">>
Letters == {"a", "b", "_"}

IsDigit(ch) == \E d \in 1..Len(DigitChars) : DigitChars[d] = ch
DigitVal(ch) == (CHOOSE d \in 1..Len(DigitChars) : DigitChars[d] = ch) - 1
IsWordChar(ch) == IsDigit(ch) \/ ch \in Letters

\* String(n): the decimal text of n, as in '${' + idx + '}' and `$${n}`.
RECURSIVE Digits(_)
Digits(n) ==
    IF n < 10 THEN <<DigitChars[n + 1]>>
    ELSE Digits(n \div 10) \o <<DigitChars[(n % 10) + 1]>>

\* Number(text) of a run of digits.
RECURSIVE NumberOf(_)
NumberOf(ds) ==
    IF Len(ds) = 0 THEN 0
    ELSE NumberOf(SubSeq(ds, 1, Len(ds) - 1)) * 10 + DigitVal(ds[Len(ds)])

\* s.startsWith(pat, i), with i counted from 1.
StartsWith(s, pat, i) ==
    /\ i + Len(pat) - 1 <= Len(s)
    /\ \A j \in 1..Len(pat) : s[i + j - 1] = pat[j]

\* s.includes(pat)
Includes(s, pat) == \E i \in 1..Len(s) : StartsWith(s, pat, i)

\* s.replaceAll(pat, rep) for a non-empty pat: the occurrences are found from
\* left to right and do not overlap.
RECURSIVE ReplaceAllFrom(_, _, _, _)
ReplaceAllFrom(s, pat, rep, i) ==
    IF i > Len(s) THEN <<>>
    ELSE IF StartsWith(s, pat, i) THEN rep \o ReplaceAllFrom(s, pat, rep, i + Len(pat))
    ELSE <<s[i]>> \o ReplaceAllFrom(s, pat, rep, i + 1)

ReplaceAll(s, pat, rep) == ReplaceAllFrom(s, pat, rep, 1)

\* The marker '${' + idx + '}'.
Marker(idx) == <<"$", "{">> \o Digits(idx) \o <<"}">>

\* The last index of the run of characters satisfying the test that starts at
\* i (i - 1 when the run is empty).
RECURSIVE DigitRunEnd(_, _)
DigitRunEnd(s, i) ==
    IF i <= Len(s) /\ IsDigit(s[i]) THEN DigitRunEnd(s, i + 1) ELSE i - 1

RECURSIVE WordRunEnd(_, _)
WordRunEnd(s, i) ==
    IF i <= Len(s) /\ IsWordChar(s[i]) THEN WordRunEnd(s, i + 1) ELSE i - 1

\* /\$\{\d+\}/ matched at i: the index of its last character, 0 without match.
MarkerEnd(s, i) ==
    IF StartsWith(s, <<"$", "{">>, i)
    THEN LET e == DigitRunEnd(s, i + 2) IN
         IF e >= i + 2 /\ e + 1 <= Len(s) /\ s[e + 1] = "}" THEN e + 1 ELSE 0
    ELSE 0

\* templateSql.split(/\$\{\d+\}/) and the loop of re.exec over /\$\{(\d+)\}/g:
\* the fragments between the markers and the numbers inside the markers.
RECURSIVE SplitAtMarkers(_, _, _, _, _)
SplitAtMarkers(s, i, cur, parts, order) ==
    IF i > Len(s) THEN [parts |-> Append(parts, cur), argOrder |-> order]
    ELSE LET e == MarkerEnd(s, i) IN
         IF e > 0
         THEN SplitAtMarkers(s, e + 1, <<>>, Append(parts, cur),
                             Append(order, NumberOf(SubSeq(s, i + 2, e - 1))))
         ELSE SplitAtMarkers(s, i + 1, Append(cur, s[i]), parts, order)

\* createTemplateStrings(parts)
createTemplateStrings(parts) == IF Len(parts) = 1 THEN parts \o << <<>> >> ELSE parts

\* replaceDollarPlaceholders(sql, argCount): `$n` becomes ${n-1}, for n from
\* argCount down to 1.
RECURSIVE replaceDollarLoop(_, _)
replaceDollarLoop(templateSql, n) ==
    IF n < 1 THEN templateSql
    ELSE replaceDollarLoop(ReplaceAll(templateSql, <<"$">> \o Digits(n), Marker(n - 1)), n - 1)

\* A replacement that goes from `$1` up to `$argCount`.
RECURSIVE replaceDollarAscending(_, _, _)
replaceDollarAscending(templateSql, n, argCount) ==
    IF n > argCount THEN templateSql
    ELSE replaceDollarAscending(ReplaceAll(templateSql, <<"$">> \o Digits(n), Marker(n - 1)),
                                n + 1, argCount)

replaceDollarPlaceholders_Ascending(sql, argCount) == replaceDollarAscending(sql, 1, argCount)

replaceDollarPlaceholders(sql, argCount) == replaceDollarLoop(sql, argCount)

\* What the translator returns: the text of the template, or null.
Null == [ok |-> FALSE, text |-> <<>>]
Text(t) == [ok |-> TRUE, text |-> t]

\* s.slice(from, to) with positions counted from 1, `to` excluded.
Slice(s, from, to) == SubSeq(s, from, to - 1)

\* /^\$[A-Za-z0-9_]*\$/ matched at i: the index of its last character, 0
\* without match.
DollarTagEnd(s, i) ==
    IF i <= Len(s) /\ s[i] = "$"
    THEN LET e == WordRunEnd(s, i + 1) IN
         IF e + 1 <= Len(s) /\ s[e + 1] = "$" THEN e + 1 ELSE 0
    ELSE 0

\* A scanner that does not know single-quoted literals.
singleQuoteOpens_Never(char) == FALSE

\* replaceQuestionPlaceholders: `if (char === "'" && !inDouble)`.
singleQuoteOpens(char) == char = "'"

\* The scanner of replaceQuestionPlaceholders from position st.i on; st holds
\* the locals of the function.
RECURSIVE questionScan(_, _, _)
questionScan(sql, argCount, st) ==
    IF st.i > Len(sql)
    THEN IF st.replaced # argCount THEN Null
         ELSE Text(st.result \o Slice(sql, st.lastIndex, Len(sql) + 1))
    ELSE
    LET i == st.i
        char == sql[i]
        next == IF i + 1 <= Len(sql) THEN sql[i + 1] ELSE "undefined"
    IN
    IF st.inLineComment
    THEN questionScan(sql, argCount,
             [st EXCEPT !.inLineComment = (char # "NL"), !.i = i + 1])
    ELSE IF st.inBlockComment
    THEN IF char = "*" /\ next = "/"
         THEN questionScan(sql, argCount, [st EXCEPT !.inBlockComment = FALSE, !.i = i + 2])
         ELSE questionScan(sql, argCount, [st EXCEPT !.i = i + 1])
    ELSE IF Len(st.dollarTag) > 0
    THEN IF StartsWith(sql, st.dollarTag, i)
         THEN questionScan(sql, argCount,
                  [st EXCEPT !.i = i + Len(st.dollarTag), !.dollarTag = <<>>])
         ELSE questionScan(sql, argCount, [st EXCEPT !.i = i + 1])
    ELSE IF st.inSingle
    THEN IF char = "'" /\ next = "'"
         THEN questionScan(sql, argCount, [st EXCEPT !.i = i + 2])
         ELSE questionScan(sql, argCount,
                  [st EXCEPT !.inSingle = (char # "'"), !.i = i + 1])
    ELSE IF st.inDouble
    THEN IF char = "\"" /\ next = "\""
         THEN questionScan(sql, argCount, [st EXCEPT !.i = i + 2])
         ELSE questionScan(sql, argCount,
                  [st EXCEPT !.inDouble = (char # "\""), !.i = i + 1])
    ELSE IF singleQuoteOpens(char)
    THEN questionScan(sql, argCount, [st EXCEPT !.inSingle = TRUE, !.i = i + 1])
    ELSE IF char = "\""
    THEN questionScan(sql, argCount, [st EXCEPT !.inDouble = TRUE, !.i = i + 1])
    ELSE IF char = "-" /\ next = "-"
    THEN questionScan(sql, argCount, [st EXCEPT !.inLineComment = TRUE, !.i = i + 2])
    ELSE IF char = "/" /\ next = "*"
    THEN questionScan(sql, argCount, [st EXCEPT !.inBlockComment = TRUE, !.i = i + 2])
    ELSE IF char = "$" /\ DollarTagEnd(sql, i) > 0
    THEN questionScan(sql, argCount,
             [st EXCEPT !.dollarTag = SubSeq(sql, i, DollarTagEnd(sql, i)),
                        !.i = DollarTagEnd(sql, i) + 1])
    ELSE IF char = "?" /\ st.replaced < argCount
    THEN questionScan(sql, argCount,
             [st EXCEPT !.result = st.result \o Slice(sql, st.lastIndex, i)
                                       \o Marker(st.replaced),
                        !.replaced = st.replaced + 1,
                        !.i = i + 1,
                        !.lastIndex = i + 1])
    ELSE questionScan(sql, argCount, [st EXCEPT !.i = i + 1])

\* replaceQuestionPlaceholders(sql, argCount)
replaceQuestionPlaceholders(sql, argCount) ==
    questionScan(sql, argCount,
        [i |-> 1, inSingle |-> FALSE, inDouble |-> FALSE, inLineComment |-> FALSE,
         inBlockComment |-> FALSE, dollarTag |-> <<>>, result |-> <<>>,
         lastIndex |-> 1, replaced |-> 0])

\* /\$\d+/.test(sql)
HasDollarDigit(sql) == \E i \in 1..(Len(sql) - 1) : sql[i] = "$" /\ IsDigit(sql[i + 1])

\* replacePlaceholders(sql, argCount)
replacePlaceholders(sql, argCount) ==
    IF argCount = 0 THEN Text(sql)
    ELSE IF HasDollarDigit(sql) THEN Text(replaceDollarPlaceholders(sql, argCount))
    ELSE IF Includes(sql, <<"?">>) THEN replaceQuestionPlaceholders(sql, argCount)
    ELSE Null

\* No compiled template (null).
NoTemplate == [built |-> FALSE, strings |-> <<>>, paramCount |-> 0, argOrder |-> <<>>]

\* buildTemplate(sql, argCount)
buildTemplate(sql, argCount) ==
    LET templateSql == replacePlaceholders(sql, argCount) IN
    IF ~templateSql.ok THEN NoTemplate
    ELSE LET r == SplitAtMarkers(templateSql.text, 1, <<>>, <<>>, <<>>) IN
         [built |-> TRUE, strings |-> createTemplateStrings(r.parts),
          paramCount |-> argCount, argOrder |-> r.argOrder]

\* ------------------------------------------------ queries and the template cache

\* The pieces SQL texts are made of: a marker `$n`, a `?` placeholder, or a
\* piece of text that is one region of SQL, with a `?` inside each region
\* that is not plain text.
MarkerTok(n) == [kind |-> "marker", n |-> n]
QuestionTok == [kind |-> "question", n |-> 0]
ChunkTok(j) == [kind |-> "chunk", n |-> j]

Chunks ==
    << <<"a">>,                                      \* plain text
       <<"'", "?", "'">>,                            \* a single-quoted literal
       <<"'", "'", "'", "?", "'">>,                  \* a literal: doubled quote, then ?
       <<"\"", "?", "\"">>,                          \* a double-quoted identifier
       <<"-", "-", "?", "NL">>,                      \* a line comment, with its end of line
       <<"/", "*", "?", "*", "/">>,                  \* a block comment
       <<"$", "$", "?", "$", "$">>,                  \* a dollar-quoted body, empty tag
       <<"$", "a", "$", "?", "$", "a", "$">> >>      \* a dollar-quoted body, tag a

\* The text of one piece.
Render(tok) ==
    CASE tok.kind = "marker" -> <<"$">> \o Digits(tok.n)
      [] tok.kind = "question" -> <<"?">>
      [] OTHER -> Chunks[tok.n]

\* The SQL text made of the pieces toks.
RECURSIVE RenderAll(_)
RenderAll(toks) ==
    IF Len(toks) = 0 THEN <<>> ELSE Render(Head(toks)) \o RenderAll(Tail(toks))

\* args of a call with n arguments: argument i is the value i, for i in 0..n-1;
\* args[i] outside of that is undefined. The arguments are scalars, which
\* coerceArgsForPostgres returns as they are.
Undefined == 0 - 1
ArgAt(i, n) == IF i < n THEN i ELSE Undefined
Args(n) == [i \in 1..n |-> i - 1]

\* getOrCreateTemplate(sql, argCount) on the cache tc: the template it returns
\* and the cache it leaves.
getOrCreateTemplate(tc, sql, argCount) ==
    IF argCount = 0 THEN [template |-> NoTemplate, cache |-> tc]
    ELSE IF sql \notin DOMAIN tc \/ tc[sql].paramCount # argCount
    THEN LET built == buildTemplate(sql, argCount) IN
         IF ~built.built THEN [template |-> NoTemplate, cache |-> tc]
         ELSE [template |-> built,
               cache |-> [k \in DOMAIN tc \cup {sql} |-> IF k = sql THEN built ELSE tc[k]]]
    ELSE [template |-> tc[sql], cache |-> tc]

\* A lookup that uses whatever entry the cache has for the SQL text.
templateFor_IgnoresParamCount(tc, sql, argCount) ==
    IF argCount > 0 /\ sql \in DOMAIN tc THEN [template |-> tc[sql], cache |-> tc]
    ELSE getOrCreateTemplate(tc, sql, argCount)

\* The template executeQueryOptimized executes a call with.
templateFor(tc, sql, argCount) == getOrCreateTemplate(tc, sql, argCount)

\* A binding that passes the arguments in their own order.
Expand_Positional(argOrder, n) == Args(n)

\* cached.argOrder?.length ? cached.argOrder.map((i) => args[i]) : args
Expand(argOrder, n) ==
    IF Len(argOrder) > 0 THEN [j \in 1..Len(argOrder) |-> ArgAt(argOrder[j], n)] ELSE Args(n)

\* executeQueryOptimized / executeTransactionQueryOptimized(connection, sql,
\* args) with n arguments on the cache tc: the invocation of the host client
\* and the cache it leaves.
executeQuery(tc, sql, n) ==
    IF n = 0
    THEN [call |-> [made |-> TRUE, strings |-> createTemplateStrings(<<sql>>),
                    values |-> <<>>, path |-> "noargs"],
          cache |-> tc]
    ELSE LET r == templateFor(tc, sql, n) IN
         IF r.template.built
         THEN [call |-> [made |-> TRUE, strings |-> r.template.strings,
                         values |-> Expand(r.template.argOrder, n), path |-> "template"],
               cache |-> r.cache]
         ELSE [call |-> [made |-> TRUE, strings |-> createTemplateStrings(<<sql>>),
                         values |-> Args(n), path |-> "fallback"],
               cache |-> r.cache]

\* The highest index among the markers of the pieces (0 without markers).
HighestMarker(toks) ==
    LET ns == { toks[i].n : i \in { j \in 1..Len(toks) : toks[j].kind = "marker" } } IN
    IF ns = {} THEN 0 ELSE CHOOSE m \in ns : \A k \in ns : k <= m

\* The argument counts the calls of a run are made with.
ArgCounts == (0..MaxArgs) \cup {HighestMarker(sqlTokens)}

\* A query on the pooled adapter with n arguments reaches
\* executeQueryOptimized; the host client is invoked.
executeQueryOptimized(n) ==
    /\ Len(calls) < MaxCalls
    /\ \A i \in 1..Len(calls) : calls[i].provider = "pooled"
    /\ LET r == executeQuery(templateCache, RenderAll(sqlTokens), n) IN
       /\ hostCall' = r.call
       /\ templateCache' = r.cache
    /\ calls' = Append(calls, [provider |-> "pooled", n |-> n])
    /\ UNCHANGED <<poolVars, callVars, txVars, dispVars, queuedAtDispose, misrouted, scriptVars, stdVars,
                   sqlTokens, stdTemplateCache, valueVars>>

\* The SQL texts of the runs: up to MaxTokens pieces, or the markers `$1` to
\* `$n` in ascending or descending order for n up to MaxMarkers.
Tokens == { MarkerTok(n) : n \in MarkerIndexes } \cup {QuestionTok}
              \cup { ChunkTok(j) : j \in 1..Len(Chunks) }

TokenSeqs == UNION { [1..len -> Tokens] : len \in 0..MaxTokens }

\* A text with a `?` inside every kind of region and two `?` outside of them.
AllRegions ==
    <<ChunkTok(2), QuestionTok, ChunkTok(3), ChunkTok(4), ChunkTok(5), QuestionTok,
      ChunkTok(6), ChunkTok(7), ChunkTok(8)>>

AllMarkers(n) == [i \in 1..n |-> MarkerTok(i)]
AllMarkersDescending(n) == [i \in 1..n |-> MarkerTok(n + 1 - i)]

InitTranslate ==
    /\ maxConnections = MaxPool
    /\ PoolInit
    /\ NoScript
    /\ TranslatorInit
    /\ NoValues
    /\ \/ sqlTokens \in TokenSeqs
       \/ sqlTokens = AllRegions
       \/ \E n \in 1..MaxMarkers : sqlTokens \in {AllMarkers(n), AllMarkersDescending(n)}

NextTranslate == \E n \in ArgCounts : executeQueryOptimized(n)

SpecTranslate == InitTranslate /\ [][NextTranslate]_vars


\* ------------------------------- the template cache of the standard adapters

\* The providers of the standard adapters; their instances share one cache.
Providers == {"postgres", "mysql", "sqlite"}

\* s.replace(pat, rep) for a string pat: the first occurrence only.
RECURSIVE ReplaceFirstFrom(_, _, _, _)
ReplaceFirstFrom(s, pat, rep, i) ==
    IF i > Len(s) THEN <<>>
    ELSE IF StartsWith(s, pat, i) THEN rep \o SubSeq(s, i + Len(pat), Len(s))
    ELSE <<s[i]>> \o ReplaceFirstFrom(s, pat, rep, i + 1)

\* hasParameterPlaceholders(sql) of the provider's adapter.
hasParameterPlaceholders(provider, sql) ==
    IF provider = "postgres" THEN Includes(sql, <<"$", "1">>) ELSE Includes(sql, <<"?">>)

\* for (i = 0; i < paramCount; i++) templateSql = templateSql.replace("?", marker)
RECURSIVE replaceQuestionsSequentially(_, _, _)
replaceQuestionsSequentially(templateSql, i, paramCount) ==
    IF i >= paramCount THEN templateSql
    ELSE replaceQuestionsSequentially(ReplaceFirstFrom(templateSql, <<"?">>, Marker(i), 1),
                                      i + 1, paramCount)

\* convertParameterPlaceholders(sql, paramCount) of the provider's adapter.
convertParameterPlaceholders(provider, sql, paramCount) ==
    IF provider = "postgres" /\ Includes(sql, <<"$", "1">>)
    THEN replaceDollarLoop(sql, paramCount)
    ELSE replaceQuestionsSequentially(sql, 0, paramCount)

\* The entry of the cache executeQueryOptimized uses for a call: the one of
\* the SQL text, whatever instance stored it.
stdCacheLookup(tc, provider, sql) ==
    IF sql \in DOMAIN tc THEN tc[sql] ELSE NoTemplate

\* BaseBunDriverAdapter.executeQueryOptimized(connection, sql, args) with n
\* arguments on the cache tc: the invocation of the host client and the cache
\* it leaves.
stdExecuteQuery(tc, provider, sql, n) ==
    IF n = 0
    THEN [call |-> [made |-> TRUE, strings |-> createTemplateStrings(<<sql>>),
                    values |-> <<>>, path |-> "noargs"],
          cache |-> tc]
    ELSE LET found == stdCacheLookup(tc, provider, sql)
             rebuild == (~found.built \/ found.paramCount # n)
                            /\ hasParameterPlaceholders(provider, sql)
             r == SplitAtMarkers(convertParameterPlaceholders(provider, sql, n),
                                 1, <<>>, <<>>, <<>>)
             cached == IF rebuild
                       THEN [built |-> TRUE, strings |-> createTemplateStrings(r.parts),
                             paramCount |-> n, argOrder |-> r.argOrder]
                       ELSE found
             cache == IF rebuild
                      THEN [k \in DOMAIN tc \cup {sql} |-> IF k = sql THEN cached ELSE tc[k]]
                      ELSE tc
         IN
         IF cached.built
         THEN [call |-> [made |-> TRUE, strings |-> cached.strings,
                         values |-> Expand(cached.argOrder, n), path |-> "template"],
               cache |-> cache]
         ELSE [call |-> [made |-> TRUE, strings |-> createTemplateStrings(<<sql>>),
                         values |-> Args(n), path |-> "fallback"],
               cache |-> cache]

\* A query with n arguments on an instance of the provider's standard
\* adapter reaches executeQueryOptimized; the host client is invoked.
stdExecuteQueryOptimized(provider, n) ==
    /\ Len(calls) < MaxCalls
    /\ \A i \in 1..Len(calls) : calls[i].provider \in Providers
    /\ LET r == stdExecuteQuery(stdTemplateCache, provider, RenderAll(sqlTokens), n) IN
       /\ hostCall' = r.call
       /\ stdTemplateCache' = r.cache
    /\ calls' = Append(calls, [provider |-> provider, n |-> n])
    /\ UNCHANGED <<poolVars, callVars, txVars, dispVars, queuedAtDispose, misrouted, scriptVars, stdVars,
                   sqlTokens, templateCache, valueVars>>

\* The SQL texts of the runs on the standard adapters.
SharedTokenSeqs == UNION { [1..len -> Tokens] : len \in 0..MaxSharedTokens }

InitShared ==
    /\ maxConnections = MaxPool
    /\ PoolInit
    /\ NoScript
    /\ TranslatorInit
    /\ NoValues
    /\ \/ sqlTokens \in SharedTokenSeqs
       \/ \E n \in 1..MaxMarkers : sqlTokens \in {AllMarkers(n), AllMarkersDescending(n)}

NextShared == \E provider \in Providers : \E n \in ArgCounts : stdExecuteQueryOptimized(provider, n)

SpecShared == InitShared /\ [][NextShared]_vars

\* ------------------------------------------------- values and argument coercion

\* A JavaScript value: its kind t, its text s (of a string; the JSON text of a
\* plain object; the ISO text of a Date), its number n (of a number, a bigint;
\* 1/0 of a boolean) and its items (of an array).
JsValue(t, s, n, items) == [t |-> t, s |-> s, n |-> n, items |-> items]
JsNull == JsValue("null", <<>>, 0, <<>>)
JsUndefined == JsValue("undefined", <<>>, 0, <<>>)
Num(n) == JsValue("number", <<>>, n, <<>>)
Half(n) == JsValue("double", <<>>, n, <<>>)        \* the number n + 0.5
NaN == JsValue("nonfinite", <<>>, 0, <<>>)
Bool(b) == JsValue("boolean", <<>>, IF b THEN 1 ELSE 0, <<>>)
Str(s) == JsValue("string", s, 0, <<>>)
Obj(json) == JsValue("object", json, 0, <<>>)
Arr(items) == JsValue("array", <<>>, 0, items)

\* typeof v
TypeOf(v) ==
    CASE v.t \in {"number", "double", "nonfinite"} -> "number"
      [] v.t \in {"boolean", "string", "undefined", "bigint"} -> v.t
      [] OTHER -> "object"

\* Array.isArray(v)
IsArray(v) == v.t = "array"

\* String(v) of a number.
NumberText(v) ==
    CASE v.t = "nonfinite" -> <<"N", "a", "N">>
      [] v.t = "double" ->
             (IF v.n < 0 THEN <<"-">> \o Digits(0 - v.n - 1) ELSE Digits(v.n)) \o <<".", "5">>
      [] OTHER -> IF v.n < 0 THEN <<"-">> \o Digits(0 - v.n) ELSE Digits(v.n)

\* s.replace(/\\/g, '\\\\').replace(/"/g, '\\"')
EscapeForArray(s) ==
    ReplaceAll(ReplaceAll(s, <<"\\">>, <<"\\", "\\">>), <<"\"">>, <<"\\", "\"">>)

\* parts.join(sep)
RECURSIVE Join(_, _)
Join(parts, sep) ==
    IF Len(parts) = 0 THEN <<>>
    ELSE IF Len(parts) = 1 THEN parts[1]
    ELSE parts[1] \o sep \o Join(Tail(parts), sep)

\* coerceArgsForPostgres.toPgArrayLiteral.encodeItem(v); the default branch
\* encodes JSON.stringify(v), the JSON text of a plain object.
encodeItem(v) ==
    CASE v.t \in {"null", "undefined"} -> <<"N", "U", "L", "L">>
      [] TypeOf(v) = "number" ->
             IF v.t = "nonfinite" THEN <<"N", "U", "L", "L">> ELSE NumberText(v)
      [] TypeOf(v) = "boolean" ->
             IF v.n = 1 THEN <<"t", "r", "u", "e">> ELSE <<"f", "a", "l", "s", "e">>
      [] TypeOf(v) = "string" -> <<"\"">> \o EscapeForArray(v.s) \o <<"\"">>
      [] OTHER -> <<"\"">> \o EscapeForArray(v.s) \o <<"\"">>

\* coerceArgsForPostgres.toPgArrayLiteral(arr)
toPgArrayLiteral(arr) ==
    <<"{">> \o Join([i \in 1..Len(arr) |-> encodeItem(arr[i])], <<",">>) \o <<"}">>

\* coerceArgsForPostgres.isPrimitiveArray(a)
isPrimitiveArray(a) ==
    /\ IsArray(a)
    /\ \A i \in 1..Len(a.items) :
           a.items[i].t = "null" \/ TypeOf(a.items[i]) \in {"string", "number", "boolean"}

\* A coercion that takes every array for a primitive one.
coerceArg_EveryArray(v) == IF IsArray(v) THEN Str(toPgArrayLiteral(v.items)) ELSE v

\* coerceArgsForPostgres: what it maps one argument to.
coerceArg(v) ==
    IF IsArray(v) /\ isPrimitiveArray(v) THEN Str(toPgArrayLiteral(v.items)) ELSE v

\* coerceArgsForPostgres(args)
coerceArgsForPostgres(args) == [i \in 1..Len(args) |-> coerceArg(args[i])]

\* ------------------------------------------------------ queries with argument values

\* The adapters a query is made through: the pooled Postgres adapter or a
\* standard adapter of a provider.
Adapters == {"pooled"} \cup Providers

\* The adapters that coerce their arguments: `this.provider === "postgres"`
\* on the standard adapters, always on the pooled adapter.
CoercesArgs(adapter) == adapter \in {"pooled", "postgres"}

\* args[i] for each i of idx (undefined outside of args).
ValuesAt(idx, args) ==
    [j \in 1..Len(idx) |->
        IF idx[j] >= 0 /\ idx[j] < Len(args) THEN args[idx[j] + 1] ELSE JsUndefined]

\* The values passed with a cached template: coerceArgsForPostgres(expanded).
templateArgs(adapter, expanded) ==
    IF CoercesArgs(adapter) THEN coerceArgsForPostgres(expanded) ELSE expanded

\* A fallback path that passes the arguments as they are.
fallbackArgs_Raw(adapter, args) == args

\* The values passed on the fallback path: coerceArgsForPostgres(args).
fallbackArgs(adapter, args) ==
    IF CoercesArgs(adapter) THEN coerceArgsForPostgres(args) ELSE args

\* BaseBunDriverAdapter.executeTransactionQueryOptimized(tx, sql, args) with
\* n arguments: the invocation of the host client (no cache is used).
stdExecuteTransactionQuery(provider, sql, n) ==
    IF n = 0
    THEN [made |-> TRUE, strings |-> createTemplateStrings(<<sql>>),
          values |-> <<>>, path |-> "noargs"]
    ELSE IF hasParameterPlaceholders(provider, sql)
    THEN LET r == SplitAtMarkers(convertParameterPlaceholders(provider, sql, n),
                                 1, <<>>, <<>>, <<>>)
         IN [made |-> TRUE, strings |-> createTemplateStrings(r.parts),
             values |-> Expand(r.argOrder, n), path |-> "template"]
    ELSE [made |-> TRUE, strings |-> createTemplateStrings(<<sql>>),
          values |-> Args(n), path |-> "fallback"]

\* queryRaw/executeRaw(query) with query.args = argValues, on the adapter or
\* (inTx) on a transaction of the adapter, up to the invocation of the host
\* client with the fragments and the values.
queryWithArgs(adapter, inTx) ==
    /\ Len(calls) < MaxCalls
    /\ \A i \in 1..Len(calls) : (calls[i].provider = "pooled") = (adapter = "pooled")
    /\ LET sql == RenderAll(sqlTokens)
           n == Len(argValues)
           r == IF adapter = "pooled" THEN executeQuery(templateCache, sql, n)
                ELSE IF inTx
                THEN [call |-> stdExecuteTransactionQuery(adapter, sql, n),
                      cache |-> stdTemplateCache]
                ELSE stdExecuteQuery(stdTemplateCache, adapter, sql, n)
       IN
       /\ hostCall' = r.call
       /\ templateCache' = IF adapter = "pooled" THEN r.cache ELSE templateCache
       /\ stdTemplateCache' = IF adapter = "pooled" THEN stdTemplateCache ELSE r.cache
       /\ bound' = CASE r.call.path = "template" ->
                            templateArgs(adapter, ValuesAt(r.call.values, argValues))
                     [] r.call.path = "fallback" -> fallbackArgs(adapter, argValues)
                     [] OTHER -> <<>>
    /\ calls' = Append(calls, [provider |-> adapter, n |-> Len(argValues), tx |-> inTx])
    /\ UNCHANGED <<poolVars, callVars, txVars, dispVars, queuedAtDispose, misrouted, scriptVars, stdVars,
                   sqlTokens, argValues, hostRows, resultSet>>

\* The SQL texts of the runs with argument values: with markers, with `?`,
\* and without a placeholder.
ArgTexts ==
    { <<MarkerTok(1)>>, <<MarkerTok(2), MarkerTok(1)>>, <<QuestionTok>>,
      <<QuestionTok, QuestionTok>>, <<ChunkTok(1)>> }

\* The argument values of the runs: scalars, a plain object, and arrays of
\* primitives, of an object, of an array, of undefined.
PrimitiveArrays ==
    { Arr(<<Str(<<"A", "L", "L">>)>>),
      Arr(<<Num(1), Num(2), Num(3)>>),
      Arr(<<Bool(TRUE), Bool(FALSE), JsNull>>),
      Arr(<<>>),
      Arr(<<Str(<<"a", "\"", "b", "\\">>), Half(0 - 1)>>),
      Arr(<<NaN>>) }

OtherArrays ==
    { Arr(<<Obj(<<"{", "\"", "a", "\"", ":", "1", "}">>)>>),
      Arr(<<Num(1), Arr(<<Num(1)>>)>>),
      Arr(<<JsUndefined>>) }

Scalars ==
    { JsNull, Num(7), Str(<<"{", "x", "}">>), Bool(TRUE),
      Obj(<<"{", "\"", "a", "\"", ":", "1", "}">>) }

ArgValueSet == PrimitiveArrays \cup OtherArrays \cup Scalars

ArgLists == UNION { [1..len -> ArgValueSet] : len \in 1..MaxArgValues }

InitArgs ==
    /\ maxConnections = MaxPool
    /\ PoolInit
    /\ NoScript
    /\ TranslatorInit
    /\ hostRows = <<>>
    /\ sqlTokens \in ArgTexts
    /\ argValues \in ArgLists

NextArgs == \E adapter \in Adapters : \E inTx \in BOOLEAN : queryWithArgs(adapter, inTx)

SpecArgs == InitArgs /\ [][NextArgs]_vars

\* ------------------------------------------------------------- the read path

DateValue(isoText) == JsValue("date", isoText, 0, <<>>)
BufferValue == JsValue("buffer", <<>>, 0, <<>>)       \* a Buffer without bytes
BigInt(n) == JsValue("bigint", <<>>, n, <<>>)

\* v === null || v === undefined
IsNullish(v) == v.t \in {"null", "undefined"}

\* typeof v === "object" && !(v instanceof Date) && !Buffer.isBuffer(v), for
\* a value that is not null.
IsOtherObject(v) == v.t \in {"object", "array"}

\* JSON.stringify(v) of a value that holds no bigint; inside an array
\* undefined is written as null.
RECURSIVE jsonStringify(_)
jsonStringify(v) ==
    CASE v.t \in {"null", "undefined", "nonfinite"} -> <<"n", "u", "l", "l">>
      [] v.t \in {"number", "double"} -> NumberText(v)
      [] v.t = "boolean" ->
             IF v.n = 1 THEN <<"t", "r", "u", "e">> ELSE <<"f", "a", "l", "s", "e">>
      [] v.t \in {"string", "date"} -> <<"\"">> \o EscapeForArray(v.s) \o <<"\"">>
      [] v.t = "array" ->
             <<"[">> \o Join([i \in 1..Len(v.items) |-> jsonStringify(v.items[i])], <<",">>)
                     \o <<"]">>
      [] v.t = "buffer" ->
             <<"{", "\"", "t", "y", "p", "e", "\"", ":", "\"", "B", "u", "f", "f", "e", "r",
               "\"", ",", "\"", "d", "a", "t", "a", "\"", ":", "[", "]", "}">>
      [] OTHER -> v.s

\* isJsonishString(s)
isJsonishString(s) ==
    LET t == Trim(s) IN
    /\ Len(t) > 0
    /\ \/ t[1] \in {"{", "["}
       \/ t[1] = "\"" /\ t[Len(t)] = "\""

\* DATE_REGEX, DATETIME_REGEX and UUID_REGEX .test(s)
DigitsAt(s, idx) == \A i \in idx : i <= Len(s) /\ IsDigit(s[i])
IsDateText(s) ==
    Len(s) = 10 /\ DigitsAt(s, {1, 2, 3, 4, 6, 7, 9, 10}) /\ s[5] = "-" /\ s[8] = "-"
IsDateTimeText(s) ==
    /\ Len(s) >= 19
    /\ DigitsAt(s, {1, 2, 3, 4, 6, 7, 9, 10, 12, 13, 15, 16, 18, 19})
    /\ s[5] = "-" /\ s[8] = "-" /\ s[11] = "T" /\ s[14] = ":" /\ s[17] = ":"
IsUuidText(s) ==
    /\ Len(s) = 36
    /\ \A i \in 1..36 :
           IF i \in {9, 14, 19, 24} THEN s[i] = "-"
           ELSE IsDigit(s[i]) \/ s[i] \in {"a", "b", "c", "d", "e", "f",
                                          "A", "B", "C", "D", "E", "F"}

\* inferColumnTypeFast(value): the ColumnTypeEnum member.
inferColumnTypeFast(value) ==
    CASE IsNullish(value) -> "UnknownNumber"
      [] value.t = "boolean" -> "Boolean"
      [] value.t = "number" -> "Int32"
      [] value.t \in {"double", "nonfinite"} -> "Double"
      [] value.t = "bigint" -> "Int64"
      [] value.t = "string" ->
             IF IsDateTimeText(value.s) THEN "DateTime"
             ELSE IF IsDateText(value.s) THEN "Date"
             ELSE IF IsUuidText(value.s) THEN "Uuid"
             ELSE "Text"
      [] value.t = "date" -> "DateTime"
      [] value.t = "buffer" -> "Bytes"
      [] OTHER -> "Json"

\* serializeValueFast(value) of the pooled adapter.
serializeValueFast(value) ==
    CASE IsNullish(value) -> value
      [] TypeOf(value) \in {"string", "number", "boolean"} -> value
      [] value.t = "bigint" -> Str(NumberText(value))
      [] value.t = "date" -> Str(value.s)
      [] value.t = "buffer" -> value
      [] OTHER -> Str(jsonStringify(value))

\* A serialization without the branch for arrays.
stdSerializeValueFast_Stringifies(value) == serializeValueFast(value)

\* serializeValueFast(value) of the standard adapters: arrays are returned
\* as they are.
stdSerializeValueFast(value) ==
    IF IsArray(value) THEN value ELSE serializeValueFast(value)

\* ensureJsonString(value); JSON.stringify throws for a bigint.
ensureJsonString(value) ==
    CASE IsNullish(value) -> Str(<<"n", "u", "l", "l">>)
      [] value.t = "string" ->
             IF isJsonishString(value.s) THEN value ELSE Str(jsonStringify(value))
      [] value.t = "buffer" -> Str(<<"[", "]">>)
      [] value.t = "bigint" -> Str(<<"n", "u", "l", "l">>)
      [] OTHER -> Str(jsonStringify(value))

\* The scan of determineColumnTypes of the standard adapters over the values
\* of one column, from row r on: hasArray and hasOtherObjects.
RECURSIVE stdScanColumn(_, _, _)
stdScanColumn(column, r, hasOtherObjects) ==
    IF r > Len(column) THEN [hasArray |-> FALSE, hasOtherObjects |-> hasOtherObjects]
    ELSE IF IsNullish(column[r]) THEN stdScanColumn(column, r + 1, hasOtherObjects)
    ELSE IF IsArray(column[r]) THEN [hasArray |-> TRUE, hasOtherObjects |-> hasOtherObjects]
    ELSE stdScanColumn(column, r + 1, hasOtherObjects \/ IsOtherObject(column[r]))

\* A scan that looks for an array in row 0 only.
stdColumnScan_FirstRow(column) ==
    [hasArray |-> IsArray(column[1]),
     hasOtherObjects |-> \E r \in 1..Len(column) : IsOtherObject(column[r])]

\* The scan of a column from its first row.
stdColumnScan(column) == stdScanColumn(column, 1, FALSE)

\* determineColumnTypes of the standard adapters, for one column.
stdDetermineColumnType(column) ==
    LET scan == stdColumnScan(column) IN
    IF scan.hasArray THEN "UnknownNumber"
    ELSE IF scan.hasOtherObjects THEN "Json"
    ELSE inferColumnTypeFast(column[1])

\* The scan of determineColumnTypes of the pooled adapter over the values of
\* one column, from row r on: isJson.
RECURSIVE scanColumnIsJson(_, _)
scanColumnIsJson(column, r) ==
    IF r > Len(column) THEN FALSE
    ELSE IF IsNullish(column[r]) THEN scanColumnIsJson(column, r + 1)
    ELSE IF TypeOf(column[r]) = "object"
    THEN IF column[r].t \in {"date", "buffer"} THEN scanColumnIsJson(column, r + 1) ELSE TRUE
    ELSE IF column[r].t = "string" /\ isJsonishString(Trim(column[r].s)) THEN TRUE
    ELSE scanColumnIsJson(column, r + 1)

\* determineColumnTypes of the pooled adapter, for one column.
determineColumnType(column) ==
    IF scanColumnIsJson(column, 1) THEN "Json" ELSE inferColumnTypeFast(column[1])

\* The result set queryRaw makes of the host client's rows (one column).
ResultSetOf(adapter, inTx, column) ==
    IF Len(column) = 0
    THEN [made |-> TRUE, adapter |-> adapter, tx |-> inTx, columnTypes |-> <<>>, rows |-> <<>>]
    ELSE LET type == IF adapter = "pooled" THEN determineColumnType(column)
                     ELSE stdDetermineColumnType(column)
         IN [made |-> TRUE, adapter |-> adapter, tx |-> inTx,
             columnTypes |-> <<type>>,
             rows |-> [r \in 1..Len(column) |->
                          IF type = "Json" THEN ensureJsonString(column[r])
                          ELSE IF adapter = "pooled" THEN serializeValueFast(column[r])
                          ELSE stdSerializeValueFast(column[r])]]

\* queryRaw(query) on the adapter or (inTx) on a transaction of the adapter,
\* from the host client's result on: the result set it returns.
queryRawReturns(adapter, inTx) ==
    /\ resultSet' = ResultSetOf(adapter, inTx, hostRows)
    /\ UNCHANGED <<poolVars, callVars, txVars, dispVars, queuedAtDispose, misrouted, scriptVars, stdVars,
                   sqlTokens, templateCache, stdTemplateCache, hostCall, calls,
                   argValues, bound, hostRows>>

\* The values of the column in the rows of the host client.
RowValues ==
    { JsNull, JsUndefined, Bool(TRUE), Num(1), Half(1), BigInt(9),
      Str(<<"x">>), Str(<<"2", "0", "2", "4", "-", "0", "1", "-", "0", "2">>),
      Str(<<" ", "{", "}">>),
      DateValue(<<"2", "0", "2", "4">>), BufferValue,
      Obj(<<"{", "\"", "a", "\"", ":", "1", "}">>),
      Arr(<<Str(<<"A", "L", "L">>), Num(2)>>), Arr(<<>>),
      Arr(<<Obj(<<"{", "\"", "a", "\"", ":", "1", "}">>)>>) }

Columns == UNION { [1..len -> RowValues] : len \in 0..MaxRows }

InitRows ==
    /\ maxConnections = MaxPool
    /\ PoolInit
    /\ NoScript
    /\ TranslatorInit
    /\ argValues = <<>>
    /\ sqlTokens = <<>>
    /\ hostRows \in Columns

NextRows == \E adapter \in Adapters : \E inTx \in BOOLEAN : queryRawReturns(adapter, inTx)

SpecRows == InitRows /\ [][NextRows]_vars

\* ------------------------------------------------------------ specifications

\* A step of a call made on the adapter.
CallStep(c) ==
    \/ queryRaw(c)
    \/ executeScript(c)
    \/ startTransaction(c)
    \/ CreateResolved(c)
    \/ CreateRejected(c)
    \/ PooledResume(c)
    \/ StatementResolved(c)
    \/ StatementRejected(c)
    \/ TxReserve(c)
    \/ ReserveResolved(c)
    \/ ReserveRejected(c)
    \/ BeginResolved(c)
    \/ IsolationResolved(c)
    \/ BeginRejected(c)
    \/ CleanupDone(c)

\* A step of a commit() or rollback() call made on a transaction.
FinalizeStep(c, s) ==
    \/ commit(c, s)
    \/ rollback(c, s)
    \/ FinalStatementResolved(c, s)
    \/ FinalStatementRejected(c, s)
    \/ FinalizeReleased(c, s)
    \/ FinalizeReleaseFailed(c, s)

\* A step of a queryRaw/executeRaw call made on a transaction.
QueryStep(c) ==
    \/ runQuery(c)
    \/ stdRunQuery(c)
    \/ QueryResolved(c)
    \/ QueryRejected(c)

\* A step of startTransaction on the standard adapter.
StdCallStep(c) ==
    \/ stdStartTransaction(c)
    \/ StdCreateResolved(c)
    \/ StdCreateRejected(c)
    \/ StdReserveResolved(c)
    \/ StdReserveRejected(c)
    \/ StdBeginResolved(c)
    \/ StdIsolationResolved(c)
    \/ StdBeginRejected(c)
    \/ StdCleanupReleased(c)
    \/ StdCleanupDone(c)

\* A step of a commit() or rollback() call made on a transaction of the
\* standard adapter.
StdFinalizeStep(c, s) ==
    \/ stdCommit(c, s)
    \/ stdRollback(c, s)
    \/ StdFinalStatementResolved(c, s)
    \/ StdFinalStatementRejected(c, s)
    \/ StdFinalizeReleased(c, s)
    \/ StdFinalizeClosed(c, s)

DisposeStep ==
    \/ dispose
    \/ DisposeEndsResolved
    \/ DisposeEndsRejected

\* The pool: NumCallers calls on the adapter, with transactions that are
\* committed or rolled back.
Next ==
    \/ \E c \in Callers : CallStep(c)
    \/ \E c \in Callers, s \in FinSlots : FinalizeStep(c, s)

Spec == Init /\ [][Next]_vars

\* The transaction, with all of its calls, overlapping or not: either a
\* transaction of the pooled adapter next to TxCallers - 1 other calls on that
\* adapter, or a transaction of the standard adapter (which shares nothing
\* with other calls: it has a connection of its own).
NextTx ==
    \/ \E c \in 1..TxCallers : CallStep(c)
    \/ StdCallStep(1)
    \/ \E c \in 1..TxCallers : QueryStep(c)
    \/ \E c \in 1..TxCallers, s \in FinSlots : FinalizeStep(c, s)
    \/ \E c \in 1..TxCallers, s \in FinSlots : StdFinalizeStep(c, s)

SpecTx == Init /\ [][NextTx]_vars

\* dispose(): one dispose() call at any moment of DisposeCallers calls on the
\* adapter.
NextDispose ==
    \/ \E c \in 1..DisposeCallers : CallStep(c)
    \/ \E c \in 1..DisposeCallers, s \in FinSlots : FinalizeStep(c, s)
    \/ DisposeStep

SpecDispose == Init /\ [][NextDispose]_vars

\* The host client settles what call c awaits (a creation, reserve(), a
\* statement), and a call that has its connection goes on.
CallProgress(c) ==
    \/ CreateResolved(c)
    \/ CreateRejected(c)
    \/ PooledResume(c)
    \/ StatementResolved(c)
    \/ StatementRejected(c)
    \/ TxReserve(c)
    \/ ReserveResolved(c)
    \/ ReserveRejected(c)
    \/ BeginResolved(c)
    \/ IsolationResolved(c)
    \/ BeginRejected(c)
    \/ CleanupDone(c)

\* The host client settles what commit()/rollback() call s awaits.
FinalizeProgress(c, s) ==
    \/ FinalStatementResolved(c, s)
    \/ FinalStatementRejected(c, s)
    \/ FinalizeReleased(c, s)
    \/ FinalizeReleaseFailed(c, s)

\* The host client settles every promise it returned, every started
\* transaction is committed or rolled back, and the end() calls of a
\* dispose() settle.  Nothing obliges anyone to call the adapter or dispose().
Fairness ==
    /\ \A c \in 1..DisposeCallers : WF_vars(CallProgress(c))
    /\ \A c \in 1..DisposeCallers : WF_vars(commit(c, 1) \/ rollback(c, 1))
    /\ \A c \in 1..DisposeCallers : WF_vars(FinalizeProgress(c, 1))
    /\ WF_vars(DisposeEndsResolved \/ DisposeEndsRejected)

\* DisposeCallers calls on the adapter, with transactions that are committed
\* or rolled back by one call, and a dispose() call at any moment.
NextFair ==
    \/ \E c \in 1..DisposeCallers : CallStep(c)
    \/ \E c \in 1..DisposeCallers : FinalizeStep(c, 1)
    \/ DisposeStep

\* The pool with dispose(), under a host client that settles.
SpecFair == Init /\ [][NextFair]_vars /\ Fairness

\* The texts of the scripts: up to MaxScriptLen characters.
ScriptChars == {";", " ", "a", "b"}
ScriptTexts == UNION { [1..n -> ScriptChars] : n \in 0..MaxScriptLen }

InitScript ==
    /\ maxConnections \in 1..MaxPool
    /\ PoolInit
    /\ TranslatorInit
    /\ NoValues
    /\ sqlTokens = <<>>
    /\ script \in ScriptTexts

\* executeScript: ScriptCallers calls of executeScript with one script text.
NextScript ==
    \E c \in 1..ScriptCallers :
        \/ executeScript(c)
        \/ CreateResolved(c)
        \/ CreateRejected(c)
        \/ PooledResume(c)
        \/ StatementResolved(c)
        \/ StatementRejected(c)

SpecScript == InitScript /\ [][NextScript]_vars

\* A step of a queryRaw/executeRaw call made on the standard adapter.
StdQueryStep(c) ==
    \/ stdQueryRaw(c)
    \/ StdQueryCreateResolved(c)
    \/ StdQueryCreateRejected(c)
    \/ StdQueryResolved(c)
    \/ StdQueryRejected(c)

\* The standard adapter: NumCallers calls, queries on the shared connection
\* next to transactions that are committed or rolled back.
NextStd ==
    \/ \E c \in Callers : StdQueryStep(c)
    \/ \E c \in Callers : StdCallStep(c)
    \/ \E c \in Callers, s \in FinSlots : StdFinalizeStep(c, s)

SpecStd == Init /\ [][NextStd]_vars


\* ------------------------------------------------------------------- claims

\* Call c has a connection checked out: getConnection gave it one (directly,
\* or through the hand-off of a release) and it has not released it yet.
HandedTo(k) == { c \in Callers : pc[c] = "handed" /\ conn[c] = k }
CheckedOutBy(k) ==
    { c \in Callers :
        /\ conn[c] = k
        /\ \/ pc[c] \in {"got", "running", "reserving", "beginning", "isolating", "cleanup"}
           \/ pc[c] = "active" /\ retCount[c] = 0 }
Holders(k) == HandedTo(k) \cup CheckedOutBy(k)
HasConnection(c) == conn[c] # 0 /\ c \in Holders(conn[c])

\* C1: the connections created and not yet ended never number more than
\* maxConnections.
C1_LiveConnectionsBounded ==
    Cardinality(created \ ended) <= maxConnections

\* C2: before dispose, every created connection is in exactly one place:
\* once in the free-list, or handed to one dequeued waiter, or checked out by
\* one call or transaction.
C2_ExactlyOnePlace ==
    dpc = "idle" =>
        \A k \in created :
            Count(availableConnections, k) + Cardinality(HandedTo(k))
                + Cardinality(CheckedOutBy(k)) = 1

\* C2 witness: one connection parked in the free-list by a finished
\* transaction while another is on its way to a dequeued waiter.
C2_Witness ==
    /\ Len(availableConnections) = 1
    /\ \E c \in Callers : pc[c] = "handed"
    /\ \E c \in Callers : pc[c] = "active" /\ retCount[c] = 1

\* C3 as stated: once any commit() or rollback() call has settled, the
\* reserved connection's release and the return of the pooled connection have
\* each happened exactly once.
C3_ReleasedOnceWhenAnyCallSettled ==
    \A c \in Callers : \A s \in FinSlots :
        (kind[c] = "tx" /\ fin[c][s].pc = "settled") => relCount[c] = 1 /\ retCount[c] = 1

Finalizing(c) == \E s \in FinSlots : fin[c][s].pc \in {"statement", "releasing"}

\* C3 amended: the release and the return never happen twice, and each has
\* happened exactly once when a commit() or rollback() call has settled
\* and no other commit()/rollback() call of the transaction is still in flight.
C3_ReleasedOnceWhenFinalizeDone ==
    \A c \in Callers : kind[c] = "tx" =>
        /\ relCount[c] <= 1
        /\ retCount[c] <= 1
        /\ (SomeSettled(c) /\ ~Finalizing(c)) => (relCount[c] = 1 /\ retCount[c] = 1)

\* C3 witness: a failing query, a failing COMMIT or ROLLBACK, and a second
\* commit()/rollback() call that overlapped the first; all have settled.
C3_Witness ==
    \E c \in Callers :
        /\ kind[c] = "tx"
        /\ aborted[c]
        /\ \A s \in FinSlots : fin[c][s].pc = "settled"
        /\ \E s \in FinSlots : fin[c][s].action = "none"
        /\ relCount[c] = 1 /\ retCount[c] = 1

\* C4: a commit() called after a statement of one of the transaction's
\* queryRaw/executeRaw calls was rejected never sends COMMIT; it sends ROLLBACK
\* (unless an earlier commit()/rollback() call already finalized the
\* transaction) with no COMMIT sent before it, and it rejects with
\* "Transaction rolled back due to a previous error".
C4_AbortedCommitRollsBack ==
    \A c \in Callers : \A s \in FinSlots :
        (kind[c] = "tx" /\ fin[c][s].call # "none" /\ fin[c][s].afterFailure) =>
            /\ fin[c][s].action # "commit"
            /\ fin[c][s].action = "none" =>
                  \E r \in FinSlots : r # s /\ fin[c][r].action # "none"
            /\ (fin[c][s].call = "commit" /\ fin[c][s].action = "rollback") =>
                  /\ sent[c][Len(sent[c])] = "ROLLBACK"
                  /\ Count(sent[c], "COMMIT") = 0
            /\ (fin[c][s].call = "commit" /\ fin[c][s].pc = "settled") =>
                  fin[c][s].outcome = "RolledBack"

\* C4 witness: a commit() after a failed query has sent ROLLBACK and rejected.
C4_Witness ==
    \E c \in Callers : \E s \in FinSlots :
        /\ kind[c] = "tx"
        /\ fin[c][s].call = "commit"
        /\ fin[c][s].afterFailure
        /\ fin[c][s].action = "rollback"
        /\ fin[c][s].pc = "settled"
        /\ fin[c][s].outcome = "RolledBack"

\* C5: with maxConnections = 1 the acquisitions are satisfied in the order
\* in which they were issued, each only once the holder before it released:
\* no call has a connection while an earlier call is still without one, and
\* no two calls hold a connection at the same time.
C5_FifoOnSingleConnection ==
    maxConnections = 1 =>
        /\ \A c, d \in Callers :
              (c < d /\ pc[c] \in {"creating", "waiting"})
                  => pc[d] \in {"idle", "creating", "waiting"}
        /\ Cardinality({ c \in Callers : HasConnection(c) }) <= 1

\* C6: a non-empty wait queue means an empty free-list, and every release made
\* while callers wait handed its connection to the longest-waiting one.
C6_NoParkingWhileWaiting ==
    /\ Len(waitQueue) > 0 => Len(availableConnections) = 0
    /\ ~misrouted

\* C6 witness: a release has handed its connection to the head of a queue of
\* two, the other caller is still queued.
C6_Witness ==
    \E c \in Callers :
        /\ pc[c] = "handed"
        /\ Len(waitQueue) > 0
        /\ \A d \in Range(waitQueue) : c < d

\* C7: once dispose() has settled, no caller that was queued when it was
\* called is still pending in the wait queue, whatever end() did.
C7_NoQueuedCallerLeftPending ==
    dpc \in {"resolved", "rejected"} => queuedAtDispose = {}

\* C8: when dispose() has completed, every connection that was live or in
\* creation when it was called has been ended.
C8_AllEndedWhenDisposed ==
    dpc = "resolved" => (creatingAtDispose \cap created) \subseteq ended

\* From the moment startTransaction has its connection until the COMMIT or
\* ROLLBACK of the transaction has settled.
Reserved(c) ==
    /\ kind[c] = "tx"
    /\ \/ pc[c] \in {"got", "handed", "reserving", "beginning", "isolating"}
       \/ /\ pc[c] = "active"
          /\ \A s \in FinSlots : fin[c][s].pc \in {"idle", "statement"} \/ fin[c][s].action = "none"

\* C9: while a transaction is reserved its connection is not in the free-list
\* and no other call has it.
C9_ReservedConnectionExclusive ==
    \A c \in Callers :
        Reserved(c) =>
            /\ Count(availableConnections, conn[c]) = 0
            /\ Holders(conn[c]) = {c}

\* C9 witness: the COMMIT/ROLLBACK of a transaction is in flight while another
\* call is queued on the saturated pool and a third call has a connection.
C9_Witness ==
    \E c \in Callers :
        /\ \E s \in FinSlots : fin[c][s].pc = "statement"
        /\ Len(waitQueue) > 0
        /\ \E d \in Callers : d # c /\ pc[d] = "running"

\* C10: a queryRaw/executeRaw issued after a commit() or rollback() call has
\* settled is rejected with "Transaction is already closed" and sends nothing.
C10_ClosedAfterFinalize ==
    \A c \in Callers :
        /\ late[c] # "sent"
        /\ SomeSettled(c) => finished[c]

\* C10 witness: a query was issued after a settled commit()/rollback() and
\* was rejected as closed.
C10_Witness ==
    \E c \in Callers : kind[c] = "tx" /\ late[c] = "closed" /\ closedRej[c] > 0

\* The same on the standard adapter.
C10_WitnessStandard ==
    \E c \in Callers : kind[c] = "stdtx" /\ late[c] = "closed" /\ closedRej[c] > 0

\* C11: a rollback() called when an earlier commit() or rollback() call of the
\* transaction has settled returns at once without throwing: it sends no
\* statement and releases nothing (pooled and standard adapter).
C11_RollbackAfterFinalizeIsNoOp ==
    \A c \in Callers : \A s \in FinSlots :
        (fin[c][s].call = "rollback" /\ fin[c][s].afterSettled) =>
            /\ fin[c][s].pc = "settled"
            /\ fin[c][s].action = "none"
            /\ fin[c][s].outcome = "ok"

\* C11 witness: rollback() after a settled commit() whose COMMIT was sent
\* (pooled adapter); the release and the return happened once.
C11_Witness ==
    \E c \in Callers : \E s \in FinSlots :
        /\ kind[c] = "tx"
        /\ fin[c][s].call = "rollback" /\ fin[c][s].afterSettled
        /\ \E r \in FinSlots : fin[c][r].call = "commit" /\ fin[c][r].action = "commit"
        /\ relCount[c] = 1 /\ retCount[c] = 1

\* The same on the standard adapter, after a settled rollback().
C11_WitnessStandard ==
    \E c \in Callers : \E s \in FinSlots :
        /\ kind[c] = "stdtx"
        /\ fin[c][s].call = "rollback" /\ fin[c][s].afterSettled
        /\ \E r \in FinSlots : fin[c][r].call = "rollback" /\ fin[c][r].action = "rollback"
        /\ relCount[c] = 1 /\ retCount[c] = 1

\* C12: on the pooled adapter a commit() called when an earlier commit() or
\* rollback() call has settled returns without throwing, sends no statement
\* and releases nothing, whatever happened before.
C12_CommitAfterFinalizeIsNoOp ==
    \A c \in Callers : \A s \in FinSlots :
        (kind[c] = "tx" /\ fin[c][s].call = "commit" /\ fin[c][s].afterSettled) =>
            /\ fin[c][s].pc = "settled"
            /\ fin[c][s].action = "none"
            /\ fin[c][s].outcome = "ok"

QueryIndex(x) == CHOOSE n \in 1..(MaxTxQueries + 1) : QueryStmt(n) = x

\* C13: on the pooled adapter the statements of a transaction go to the
\* reserved connection only, in this order: BEGIN first, the isolation-level
\* statement second if and only if a level was given, then the caller's
\* queries in the order of their calls, and COMMIT, once sent, is the last.
C13_StatementOrder ==
    \A c \in Callers : kind[c] = "tx" =>
        LET q == sent[c] IN
        /\ pooledSent[c] = <<>>
        /\ \A i \in 1..Len(q) : q[i] = "BEGIN" <=> i = 1
        /\ \A i \in 1..Len(q) : q[i] = "SET ISOLATION" <=> (iso[c] /\ i = 2)
        /\ \A i, j \in 1..Len(q) :
              (i < j /\ q[i] \in Queries /\ q[j] \in Queries)
                  => QueryIndex(q[i]) < QueryIndex(q[j])
        /\ \A i \in 1..Len(q) : q[i] = "COMMIT" =>
              /\ i = Len(q)
              /\ Count(q, "ROLLBACK") = 0

\* C13 witness: a transaction with an isolation level and two queries has
\* been committed.
C13_Witness ==
    \E c \in Callers :
        /\ kind[c] = "tx"
        /\ sent[c] = <<"BEGIN", "SET ISOLATION", QueryStmt(1), QueryStmt(2), "COMMIT">>
        /\ \E s \in FinSlots : fin[c][s].call = "commit" /\ fin[c][s].outcome = "ok"

\* C14: on the pooled adapter, whatever the ROLLBACK statement and the release
\* of the reserved connection did, a rollback() that ran finalize resolves, a
\* commit() on an aborted transaction rejects with "Transaction rolled back
\* due to a previous error", and the connection has been returned to the pool.
C14_CleanupErrorsSwallowed ==
    \A c \in Callers : \A s \in FinSlots :
        (kind[c] = "tx" /\ fin[c][s].pc = "settled" /\ fin[c][s].action # "none") =>
            /\ fin[c][s].call = "rollback" => fin[c][s].outcome = "ok"
            /\ (fin[c][s].call = "commit" /\ fin[c][s].action = "rollback")
                  => fin[c][s].outcome = "RolledBack"
            /\ retCount[c] = 1

\* C14 witness: a commit() on an aborted transaction whose ROLLBACK failed and
\* whose reserved connection failed to release has settled.
C14_Witness ==
    \E c \in Callers : \E s \in FinSlots :
        /\ kind[c] = "tx"
        /\ fin[c][s].pc = "settled"
        /\ fin[c][s].call = "commit" /\ fin[c][s].action = "rollback"
        /\ ~fin[c][s].stmtOk /\ ~fin[c][s].relOk
        /\ fin[c][s].outcome = "RolledBack"
        /\ retCount[c] = 1

\* The same for a rollback() call.
C14_WitnessRollback ==
    \E c \in Callers : \E s \in FinSlots :
        /\ kind[c] = "tx"
        /\ fin[c][s].pc = "settled"
        /\ fin[c][s].call = "rollback" /\ fin[c][s].action = "rollback"
        /\ ~fin[c][s].stmtOk /\ ~fin[c][s].relOk
        /\ fin[c][s].outcome = "ok"
        /\ retCount[c] = 1


\* The slots of the markers of the pieces, from left to right: n-1 for `$n`.
RECURSIVE MarkerSlots(_)
MarkerSlots(toks) ==
    IF Len(toks) = 0 THEN <<>>
    ELSE IF Head(toks).kind = "marker" THEN <<Head(toks).n - 1>> \o MarkerSlots(Tail(toks))
    ELSE MarkerSlots(Tail(toks))

\* The texts before, between and after the pieces of kind k.
RECURSIVE FragmentsAt(_, _, _)
FragmentsAt(toks, k, cur) ==
    IF Len(toks) = 0 THEN <<cur>>
    ELSE IF Head(toks).kind = k THEN <<cur>> \o FragmentsAt(Tail(toks), k, <<>>)
    ELSE FragmentsAt(Tail(toks), k, cur \o Render(Head(toks)))

\* The last call of the run is a pooled query with n arguments.
LastCallHas(n) ==
    /\ Len(calls) > 0
    /\ calls[Len(calls)].provider = "pooled"
    /\ calls[Len(calls)].n = n

\* C15: a SQL text with `$n` markers in any order and with repeats, called
\* with as many arguments as its highest marker index, gets an argOrder that
\* lists n-1 for each marker occurrence from left to right, and the host
\* client receives argument n-1 at every slot where `$n` stood.
C15_MarkersBindTheirArguments ==
    (HighestMarker(sqlTokens) > 0 /\ LastCallHas(HighestMarker(sqlTokens))) =>
        /\ hostCall.path = "template"
        /\ RenderAll(sqlTokens) \in DOMAIN templateCache
        /\ templateCache[RenderAll(sqlTokens)].argOrder = MarkerSlots(sqlTokens)
        /\ hostCall.strings = FragmentsAt(sqlTokens, "marker", <<>>)
        /\ hostCall.values = MarkerSlots(sqlTokens)

\* A text whose markers are out of order and repeated has been executed:
\* `$n $1 $1` with n > 1 and n arguments.
C15_Witness ==
    /\ Len(sqlTokens) = 3
    /\ \A i \in 1..3 : sqlTokens[i].kind = "marker"
    /\ sqlTokens[1].n > 1 /\ sqlTokens[2].n = 1 /\ sqlTokens[3].n = 1
    /\ LastCallHas(sqlTokens[1].n)
    /\ hostCall.values = <<sqlTokens[1].n - 1, 0, 0>>
    /\ Len(hostCall.strings) = 4


\* The text of the pieces with every marker `$n` rewritten to ${n-1}.
RECURSIVE RewrittenText(_)
RewrittenText(toks) ==
    IF Len(toks) = 0 THEN <<>>
    ELSE (IF Head(toks).kind = "marker" THEN Marker(Head(toks).n - 1) ELSE Render(Head(toks)))
             \o RewrittenText(Tail(toks))

\* C16: with the markers `$1` to `$n` in the text and n arguments, for n up
\* to MaxMarkers, each `$k` is rewritten to its own slot k-1: a multi-digit
\* marker such as `$12` is never split into the slot of `$1` and a stray
\* digit, so no digit is left in the fragments sent to the host client.
C16_DescendingReplacement ==
    (HighestMarker(sqlTokens) > 0 /\ LastCallHas(HighestMarker(sqlTokens))) =>
        /\ replaceDollarPlaceholders(RenderAll(sqlTokens), HighestMarker(sqlTokens))
               = RewrittenText(sqlTokens)
        /\ Len(hostCall.strings) = Len(MarkerSlots(sqlTokens)) + 1
        /\ \A j \in 1..Len(hostCall.strings) :
               \A k \in 1..Len(hostCall.strings[j]) : ~IsDigit(hostCall.strings[j][k])

\* The text `$1 ... $15` has been executed with 15 arguments, and slot k-1
\* has received argument k-1.
C16_Witness ==
    /\ sqlTokens = AllMarkers(MaxMarkers)
    /\ MaxMarkers >= 15
    /\ LastCallHas(MaxMarkers)
    /\ hostCall.path = "template"
    /\ hostCall.values = Args(MaxMarkers)


\* C16 on the standard Postgres adapter: a call with as many arguments as the
\* highest marker of a text that holds `$1` executes the text with every `$k`
\* rewritten to slot k-1, when no other provider's instance has stored a
\* template for the text.
C16_StandardAdapter ==
    (/\ Len(calls) > 0
     /\ \A i \in 1..Len(calls) : calls[i].provider = "postgres"
     /\ calls[Len(calls)].n = HighestMarker(sqlTokens)
     /\ hasParameterPlaceholders("postgres", RenderAll(sqlTokens))) =>
        /\ convertParameterPlaceholders("postgres", RenderAll(sqlTokens),
                                        HighestMarker(sqlTokens))
               = RewrittenText(sqlTokens)
        /\ hostCall.strings = FragmentsAt(sqlTokens, "marker", <<>>)
        /\ hostCall.values = MarkerSlots(sqlTokens)


\* The number of `?` pieces of the text: the `?` outside of every literal,
\* identifier, comment and dollar-quoted body.
QuestionCount(toks) == Cardinality({ i \in 1..Len(toks) : toks[i].kind = "question" })

\* The text has no `$n` marker, so that it takes the `?` path when it has a `?`.
OnQuestionPath(toks) == \A i \in 1..Len(toks) : toks[i].kind # "marker"

\* C17: on the `?` path of the pooled adapter, called with as many arguments
\* as there are `?` outside of literals, identifiers, comments and
\* dollar-quoted bodies, exactly these `?` become slots, bound to the
\* arguments from left to right, and every `?` inside such a region is sent
\* unchanged in the fragments.
C17_QuestionMarksOutsideRegions ==
    (/\ OnQuestionPath(sqlTokens)
     /\ QuestionCount(sqlTokens) > 0
     /\ LastCallHas(QuestionCount(sqlTokens))) =>
        /\ hostCall.path = "template"
        /\ hostCall.strings = FragmentsAt(sqlTokens, "question", <<>>)
        /\ hostCall.values = Args(QuestionCount(sqlTokens))

\* The text with a `?` in each kind of region and two `?` outside has been
\* executed with two arguments: two values bound, three fragments.
C17_Witness ==
    /\ sqlTokens = AllRegions
    /\ LastCallHas(2)
    /\ hostCall.path = "template"
    /\ hostCall.values = <<0, 1>>
    /\ Len(hostCall.strings) = 3
    /\ hostCall.strings[2] = Chunks[3] \o Chunks[4] \o Chunks[5]


\* C18: on the `?` path, a call whose argument count differs from the number
\* of `?` outside of literals and comments, be it lower or higher, gets no
\* template: the query takes the fallback path, with the whole SQL text as
\* the only fragment and the arguments as passed.
C18_CountMismatchFallsBack ==
    (/\ OnQuestionPath(sqlTokens)
     /\ \E n \in 1..MaxArgs : LastCallHas(n) /\ n # QuestionCount(sqlTokens)) =>
        /\ hostCall.path = "fallback"
        /\ hostCall.strings = <<RenderAll(sqlTokens), <<>> >>
        /\ hostCall.values = Args(calls[Len(calls)].n)


\* C19: whatever calls reused the SQL text before, with whatever argument
\* counts, a call with n > 0 arguments is executed with the template the
\* translator builds afresh for (sql, n), whose paramCount is n; an entry
\* built for another argument count is never used, and without a template
\* the call takes the fallback path.
C19_TemplateMatchesArgumentCount ==
    (\E n \in ArgCounts \ {0} : LastCallHas(n)) =>
        LET n == calls[Len(calls)].n
            sql == RenderAll(sqlTokens)
            fresh == buildTemplate(sql, n)
        IN IF fresh.built
           THEN /\ hostCall.path = "template"
                /\ hostCall.strings = fresh.strings
                /\ hostCall.values = Expand(fresh.argOrder, n)
                /\ sql \in DOMAIN templateCache
                /\ templateCache[sql] = fresh
                /\ templateCache[sql].paramCount = n
           ELSE hostCall.path = "fallback"

\* A text has been executed with one argument and then with two, and both
\* argument counts have a template of their own.
C19_Witness ==
    /\ Len(calls) = 2
    /\ calls[1].provider = "pooled" /\ calls[1].n = 1
    /\ LastCallHas(2)
    /\ buildTemplate(RenderAll(sqlTokens), 1).built
    /\ buildTemplate(RenderAll(sqlTokens), 2).built
    /\ buildTemplate(RenderAll(sqlTokens), 1).strings
           # buildTemplate(RenderAll(sqlTokens), 2).strings
    /\ hostCall.path = "template"
    /\ templateCache[RenderAll(sqlTokens)].paramCount = 2


\* C20: the standard adapters' instances share one template cache, and for
\* any sequence of queries made through Postgres, MySQL and SQLite instances
\* that reuse one SQL text, the fragments and the values an instance sends
\* to its host client are those it would send with an empty cache.
C20_SharedCacheIsTransparent ==
    (Len(calls) > 0 /\ calls[Len(calls)].provider \in Providers) =>
        LET last == calls[Len(calls)]
            cold == stdExecuteQuery(EmptyCache, last.provider, RenderAll(sqlTokens), last.n).call
        IN /\ hostCall.strings = cold.strings
           /\ hostCall.values = cold.values


\* The argument behind slot j of the last invocation of the host client.
SlotArg(j) ==
    IF hostCall.path = "template" THEN ValuesAt(hostCall.values, argValues)[j]
    ELSE argValues[j]

\* The array-literal texts of the arrays of primitives among the argument
\* values, written out by hand.
ExpectedLiteral(a) ==
    CASE a = Arr(<<Str(<<"A", "L", "L">>)>>) -> <<"{", "\"", "A", "L", "L", "\"", "}">>
      [] a = Arr(<<Num(1), Num(2), Num(3)>>) -> <<"{", "1", ",", "2", ",", "3", "}">>
      [] a = Arr(<<Bool(TRUE), Bool(FALSE), JsNull>>) ->
             <<"{", "t", "r", "u", "e", ",", "f", "a", "l", "s", "e", ",",
               "N", "U", "L", "L", "}">>
      [] a = Arr(<<>>) -> <<"{", "}">>
      [] a = Arr(<<Str(<<"a", "\"", "b", "\\">>), Half(0 - 1)>>) ->
             <<"{", "\"", "a", "\\", "\"", "b", "\\", "\\", "\"", ",",
               "-", "0", ".", "5", "}">>
      [] OTHER -> <<"{", "N", "U", "L", "L", "}">>

\* An array that holds a plain object or an array.
HoldsObjectOrArray(a) ==
    IsArray(a) /\ \E i \in 1..Len(a.items) : a.items[i].t \in {"object", "array"}

\* The last query was made through an adapter that coerces its arguments and
\* passed values to the host client.
CoercedCallMade ==
    /\ Len(calls) > 0
    /\ CoercesArgs(calls[Len(calls)].provider)
    /\ hostCall.path \in {"template", "fallback"}

\* C21: argument coercion maps an array of nulls, strings, numbers and
\* booleans to its brace array-literal text (["ALL"] to {"ALL"}, [1,2,3] to
\* {1,2,3}, [true,false,null] to {true,false,NULL}), returns an array that
\* holds an object or a nested array as the same array, and returns every
\* argument that is no array unchanged.
C21_CoercionOfArguments ==
    CoercedCallMade =>
        \A j \in 1..Len(bound) :
            /\ SlotArg(j) \in PrimitiveArrays => bound[j] = Str(ExpectedLiteral(SlotArg(j)))
            /\ HoldsObjectOrArray(SlotArg(j)) => bound[j] = SlotArg(j)
            /\ ~IsArray(SlotArg(j)) => bound[j] = SlotArg(j)

\* ["ALL"] and an array holding an object have been passed as arguments: the
\* host client received {"ALL"} and the same array.
C21_Witness ==
    /\ CoercedCallMade
    /\ argValues = <<Arr(<<Str(<<"A", "L", "L">>)>>),
                     Arr(<<Obj(<<"{", "\"", "a", "\"", ":", "1", "}">>)>>)>>
    /\ hostCall.path = "fallback"
    /\ bound = <<Str(<<"{", "\"", "A", "L", "L", "\"", "}">>),
                 Arr(<<Obj(<<"{", "\"", "a", "\"", ":", "1", "}">>)>>)>>


\* The last query was made through a Postgres adapter (the pooled one or the
\* standard one) and passed values to the host client.
PostgresCallMade ==
    /\ Len(calls) > 0
    /\ calls[Len(calls)].provider \in {"pooled", "postgres"}
    /\ hostCall.path \in {"template", "fallback"}

\* C22: on the Postgres adapters, on the template path and on the fallback
\* path, on the adapter and inside a transaction, no array of primitives
\* reaches the host client as an array: the value bound for such an argument
\* is its array-literal text.
C22_PrimitiveArraysReachHostAsText ==
    PostgresCallMade =>
        \A j \in 1..Len(bound) :
            /\ bound[j] \notin PrimitiveArrays
            /\ SlotArg(j) \in PrimitiveArrays =>
                   bound[j].t = "string" /\ bound[j].s = ExpectedLiteral(SlotArg(j))

\* A transaction query of a Postgres adapter whose SQL text has no recognized
\* placeholder has passed ["ALL"]: the host client received {"ALL"}.
C22_Witness ==
    /\ PostgresCallMade
    /\ calls[Len(calls)].tx
    /\ hostCall.path = "fallback"
    /\ argValues = <<Arr(<<Str(<<"A", "L", "L">>)>>)>>
    /\ bound = <<Str(<<"{", "\"", "A", "L", "L", "\"", "}">>)>>

\* The same on the template path, outside of a transaction.
C22_WitnessTemplate ==
    /\ PostgresCallMade
    /\ ~calls[Len(calls)].tx
    /\ hostCall.path = "template"
    /\ argValues = <<Arr(<<Str(<<"A", "L", "L">>)>>)>>
    /\ bound = <<Str(<<"{", "\"", "A", "L", "L", "\"", "}">>)>>


\* The last queryRaw was made through a standard adapter and returned rows.
StandardResult ==
    /\ resultSet.made
    /\ resultSet.adapter \in Providers
    /\ Len(hostRows) > 0

\* C23: in the standard adapter, a column that holds an array in at least one
\* row, whichever row it is, is classified as the opaque array type
\* (UnknownNumber) and never as JSON.
C23_ArrayColumnIsArrayTyped ==
    (StandardResult /\ \E r \in 1..Len(hostRows) : hostRows[r].t = "array") =>
        resultSet.columnTypes = <<"UnknownNumber">>

\* A column whose row 0 holds null and whose row 1 holds an array has been
\* classified as array-typed.
C23_Witness ==
    /\ StandardResult
    /\ Len(hostRows) = 2
    /\ hostRows[1] = JsNull
    /\ hostRows[2] = Arr(<<Str(<<"A", "L", "L">>), Num(2)>>)
    /\ resultSet.columnTypes = <<"UnknownNumber">>


\* C24: in the standard adapter, on the adapter and inside a transaction,
\* every array in a row of the host client is returned in the rows of the
\* result set as the same list, never as a JSON text, whatever the other
\* rows of the column hold.
C24_ArraysReturnedAsLists ==
    StandardResult =>
        \A r \in 1..Len(hostRows) :
            hostRows[r].t = "array" => resultSet.rows[r] = hostRows[r]

\* A transaction query has returned a column that holds a plain object, an
\* array and null: the array came back as the list it was.
C24_Witness ==
    /\ StandardResult
    /\ resultSet.tx
    /\ hostRows = <<Obj(<<"{", "\"", "a", "\"", ":", "1", "}">>),
                    Arr(<<Str(<<"A", "L", "L">>), Num(2)>>), JsNull>>
    /\ resultSet.rows[2] = Arr(<<Str(<<"A", "L", "L">>), Num(2)>>)
    /\ resultSet.rows[1].t = "string"


\* The rows of the column hold values of kind t or nothing (null, undefined),
\* and at least one value of kind t.
ColumnOfKind(t) ==
    /\ \A r \in 1..Len(hostRows) : IsNullish(hostRows[r]) \/ hostRows[r].t = t
    /\ \E r \in 1..Len(hostRows) : hostRows[r].t = t

\* C25: column type inference uses all rows: a column without arrays and
\* JSON objects whose rows hold booleans, or plain text, next to nulls is
\* classified as boolean, or text, in whatever row the nulls are, and not as
\* the unknown placeholder type.
C25_TypeInferenceUsesAllRows ==
    (resultSet.made /\ Len(hostRows) > 0) =>
        /\ ColumnOfKind("boolean") => resultSet.columnTypes = <<"Boolean">>
        /\ (ColumnOfKind("string") /\ \A r \in 1..Len(hostRows) :
                hostRows[r].t = "string" => hostRows[r].s = <<"x">>)
               => resultSet.columnTypes = <<"Text">>

\* The places of the script's separators, with the two ends of the text.
ScriptBounds == {0, Len(script) + 1} \cup { i \in 1..Len(script) : script[i] = ";" }

\* The places of the characters of the piece that starts after bound a.
PieceAfter(a) ==
    LET b == CHOOSE x \in ScriptBounds : x > a /\ \A y \in ScriptBounds : y > a => x <= y
    IN { k \in (a + 1)..(b - 1) : script[k] # " " }

\* The bounds after which a non-blank piece starts.
NonBlankStarts == { a \in ScriptBounds : a <= Len(script) /\ PieceAfter(a) # {} }

\* The j-th non-blank piece of the script, from its first to its last
\* character that is not white space.
ExpectedStatement(j) ==
    LET a == CHOOSE x \in NonBlankStarts :
                 Cardinality({ y \in NonBlankStarts : y < x }) = j - 1
        ks == PieceAfter(a)
        lo == CHOOSE k \in ks : \A m \in ks : k <= m
        hi == CHOOSE k \in ks : \A m \in ks : k >= m
    IN SubSeq(script, lo, hi)

\* What executeScript call c has sent and released so far.
ScriptCallInOrder(c) ==
    LET log == scriptSent[c]
        total == Cardinality(NonBlankStarts)
    IN /\ Len(log) <= total
       /\ \A j \in 1..Len(log) : log[j] = ExpectedStatement(j)
       /\ released[c] <= 1
       /\ released[c] = 1 <=> result[c] \in {"ok", "StatementFailed"}
       /\ result[c] = "ok" => Len(log) = total
       /\ result[c] = "StatementFailed" => Len(log) >= 1
       /\ result[c] # "none" => pc[c] = "done"

\* What a step may do to executeScript call c.
ScriptCallStep(c) ==
    /\ Len(scriptSent'[c]) > Len(scriptSent[c]) =>
          /\ Len(scriptSent'[c]) = Len(scriptSent[c]) + 1
          /\ result[c] = "none"
          /\ pc[c] \in {"got", "handed", "running"}
          /\ pc[c] = "running" => stmts'[c] = stmts[c] - 1
          /\ conn[c] # 0
    /\ (pc[c] \in {"got", "handed", "running"} /\ pc'[c] # "done") => conn'[c] = conn[c]
    /\ result[c] # "none" => scriptSent'[c] = scriptSent[c] /\ released'[c] = released[c]
    /\ released'[c] > released[c] =>
          \/ conn[c] \in Range(availableConnections')
          \/ \E d \in Callers : pc'[d] = "handed" /\ conn'[d] = conn[c]

\* C26: executeScript on the pooled adapter sends the non-blank pieces of the
\* script between its semicolons, each without the white space around it,
\* on the one connection it acquired and in the order of the text, the next
\* one only in the step in which the one before it resolved; once a statement
\* has failed nothing more is sent, the call settles with the error, and
\* the connection goes back to the pool (to the free-list or to the oldest
\* waiter) exactly once.
C26_ScriptStatementsInOrder ==
    [][\A c \in Callers : kind'[c] = "script" =>
          ScriptCallInOrder(c)' /\ ScriptCallStep(c)]_vars

\* A script with a blank piece of which the second statement failed, on a
\* connection that an earlier call had used.
C26_Witness ==
    \E c \in Callers :
        /\ kind[c] = "script"
        /\ result[c] = "StatementFailed"
        /\ Len(scriptSent[c]) = 2
        /\ released[c] = 1
        /\ Len(split(script, <<>>)) > 2

\* C27: on the standard adapter the connections open at the same time, the
\* shared one of the queries and those of the transactions, are never more
\* than maxConnections.
C27_StandardConnectionsBounded ==
    Cardinality(stdOpen) <= maxConnections

\* The creation that call c awaits fails in this step: the call leaves
\* getConnection without its connection having been created.
CreationFails(c) ==
    /\ pc[c] = "creating"
    /\ pc'[c] # "creating"
    /\ conn[c] \notin created'

\* C28: when the creation of a connection fails on the pooled adapter, the
\* error settles the queryRaw/executeRaw/executeScript/startTransaction call
\* that awaited it and the pool is as before: this.connections, the
\* free-list and the wait queue are unchanged, no other call is touched, and
\* getConnection takes the same branch for the next call as it would have
\* taken before the failure.
C28_FailedCreationLeavesPool ==
    [][\A c \in Callers : CreationFails(c) =>
          /\ pc'[c] = "done" /\ result'[c] = "CreateFailed" /\ conn'[c] = 0
          /\ UNCHANGED <<connections, availableConnections, waitQueue, maxConnections,
                         created, ended>>
          /\ \A d \in Callers \ {c} : pc'[d] = pc[d] /\ conn'[d] = conn[d] /\ result'[d] = result[d]
          /\ getConnection' = getConnection]_vars

\* A creation failed with the pool below its maximum, and a call made
\* later created a connection that is in this.connections.
C28_Witness ==
    \E c, d \in Callers :
        /\ c < d
        /\ result[c] = "CreateFailed"
        /\ kind[c] \in {"pooled", "tx"}
        /\ conn[d] \in Range(connections)
        /\ Len(connections) = 1
        /\ nextConn = 2

\* C29: on the standard adapter, however the commit() and rollback() calls on
\* a transaction overlap, at most one COMMIT or ROLLBACK statement is sent,
\* reserved.release() is called at most once and connection.end() at most
\* once.
C29_OverlappingFinalizeOnce ==
    \A c \in Callers : kind[c] = "stdtx" =>
        /\ Count(sent[c], "COMMIT") + Count(sent[c], "ROLLBACK") <= 1
        /\ relCount[c] <= 1
        /\ retCount[c] <= 1

\* C30: under a host client that settles every statement and with every
\* started transaction committed or rolled back, a caller queued in
\* getConnection is eventually handed a connection by a release or rejected
\* with "Adapter disposed".
C30_QueuedCallerEventuallyServed ==
    \A c \in 1..DisposeCallers :
        (pc[c] = "waiting") ~> (pc[c] = "handed" \/ result[c] = "AdapterDisposed")

\* A queued caller was handed the connection of a query that failed.
C30_Witness ==
    \E c, d \in 1..DisposeCallers :
        /\ pc[c] = "handed"
        /\ result[d] = "StatementFailed"
        /\ dpc = "idle"


\* The text of the pieces with the markers `$k`, k <= n, rewritten to ${k-1}
\* and every other piece as it is.
RECURSIVE RewrittenUpTo(_, _)
RewrittenUpTo(toks, n) ==
    IF Len(toks) = 0 THEN <<>>
    ELSE (IF Head(toks).kind = "marker" /\ Head(toks).n <= n
          THEN Marker(Head(toks).n - 1) ELSE Render(Head(toks)))
             \o RewrittenUpTo(Tail(toks), n)

\* C31: when the text holds a marker `$k` with k above the number of
\* arguments of the call, the rewritten text keeps that marker as it is: the
\* markers up to the argument count are rewritten to their slots and nothing
\* is substituted inside `$k`.
C31_HigherMarkerLeftIntact ==
    (/\ Len(calls) > 0
     /\ calls[Len(calls)].provider = "pooled"
     /\ calls[Len(calls)].n > 0
     /\ HighestMarker(sqlTokens) > calls[Len(calls)].n) =>
        replaceDollarPlaceholders(RenderAll(sqlTokens), calls[Len(calls)].n)
            = RewrittenUpTo(sqlTokens, calls[Len(calls)].n)


\* C32: queryRaw of the pooled (optimized) adapter and queryRaw of the
\* standard Postgres adapter return the same columnTypes and the same row
\* values for the same rows of the host client, whatever the column holds.
C32_ReadPathsInterchangeable ==
    (resultSet.made /\ resultSet.adapter \in {"pooled", "postgres"}) =>
        LET other == IF resultSet.adapter = "pooled" THEN "postgres" ELSE "pooled"
            twin == ResultSetOf(other, resultSet.tx, hostRows)
        IN /\ resultSet.columnTypes = twin.columnTypes
           /\ resultSet.rows = twin.rows


\* C33: every invocation of the host client made for a query with arguments
\* passes as many values as the fragments leave slots (the number of
\* fragments minus one), on the template path and on the fallback path.
C33_ValuesMatchSlots ==
    (hostCall.made /\ hostCall.path \in {"template", "fallback"}) =>
        Len(hostCall.values) = Len(hostCall.strings) - 1


\* C34: on the standard adapter no statement of a queryRaw/executeRaw call
\* is sent on the reserved connection of a transaction after its COMMIT or
\* ROLLBACK statement.
C34_NoQueryAfterFinalStatement ==
    \A c \in Callers : kind[c] = "stdtx" =>
        \A i, j \in 1..Len(sent[c]) :
            (i < j /\ sent[c][i] \in {"COMMIT", "ROLLBACK"}) => sent[c][j] \notin Queries


\* C35: once dispose() has called end() on a connection, no step places that
\* connection in the free-list and no step gives it to a call, whether it
\* was idle or checked out when dispose() ran.
C35_EndedConnectionNeverReused ==
    [][\A k \in ended :
          /\ k \notin Range(availableConnections) => k \notin Range(availableConnections')
          /\ \A c \in Callers : conn[c] # k => conn'[c] # k]_vars


\* C36: on the pooled adapter, when the reserved connection of a transaction
\* has been released after its BEGIN succeeded (the isolation-level statement
\* failed, or the transaction was finalized), a COMMIT or ROLLBACK statement
\* has been sent on it.
C36_NoReleaseWithOpenTransaction ==
    \A c \in Callers :
        (/\ kind[c] = "tx"
         /\ result[c] \in {"IsolationFailed", "transaction"}
         /\ relCount[c] + retCount[c] > 0) =>
            \E i \in 1..Len(sent[c]) : sent[c][i] \in {"COMMIT", "ROLLBACK"}


\* C37: on the standard adapter, a commit() whose COMMIT statement failed has
\* sent a ROLLBACK after it on the reserved connection by the time it rejects
\* with the COMMIT error.
C37_RollbackAfterFailedCommit ==
    \A c \in Callers, s \in FinSlots :
        (/\ kind[c] = "stdtx"
         /\ fin[c][s].call = "commit"
         /\ fin[c][s].pc = "settled"
         /\ fin[c][s].outcome = "CommitFailed") =>
            \E i, j \in 1..Len(sent[c]) :
                i < j /\ sent[c][i] = "COMMIT" /\ sent[c][j] = "ROLLBACK"


\* The errors startTransaction rejects with when reserve(), BEGIN or the
\* isolation-level statement failed.
StartFailures == {"ReserveFailed", "BeginFailed", "IsolationFailed"}

\* C38: a startTransaction of the pooled adapter whose reserve(), BEGIN or
\* isolation-level statement failed rejects with that error and hands out no
\* transaction (no query, commit() or rollback() is ever made on it); when it
\* has settled, its pooled connection has been given back exactly once and
\* the reserved connection, if reserve() had resolved, released exactly once.
C38_FailedStartGivesConnectionBack ==
    \A c \in Callers : kind[c] = "tx" =>
        /\ retCount[c] <= 1 /\ relCount[c] <= 1
        /\ result[c] \in StartFailures =>
              /\ pc[c] \in {"cleanup", "done"}
              /\ \A s \in FinSlots : fin[c][s].call = "none"
              /\ QueriesIssued(c) = 0
              /\ relCount[c] = (IF result[c] = "ReserveFailed" THEN 0 ELSE 1)
              /\ Len(sent[c]) = (CASE result[c] = "ReserveFailed" -> 0
                                   [] result[c] = "BeginFailed" -> 1
                                   [] OTHER -> 2)
              /\ pc[c] = "done" => retCount[c] = 1 /\ conn[c] = 0
        /\ (pc[c] = "done" /\ retCount[c] = 1) => result[c] \in StartFailures

\* The isolation-level statement failed after BEGIN, and the connection went
\* to the call that was queued for it.
C38_Witness ==
    \E c, d \in Callers :
        /\ kind[c] = "tx"
        /\ result[c] = "IsolationFailed"
        /\ pc[c] = "done"
        /\ retCount[c] = 1 /\ relCount[c] = 1
        /\ pc[d] = "handed"

\* reserve() failed and the connection is back in the free-list.
C38_WitnessReserve ==
    \E c \in Callers :
        /\ kind[c] = "tx"
        /\ result[c] = "ReserveFailed"
        /\ retCount[c] = 1 /\ relCount[c] = 0
        /\ Len(availableConnections) = 1


\* The open connections of the standard adapter that no transaction owns:
\* those created by getConnection() for the queries.
SharedOpen == stdOpen \ { conn[c] : c \in { d \in Callers : kind[d] = "stdtx" } }

\* C39: on the standard adapter, however the first queries overlap, at most
\* one shared connection has been created, and it is this.connection, the
\* one dispose() ends.
C39_OneSharedConnection ==
    /\ Cardinality(SharedOpen) <= 1
    /\ SharedOpen \subseteq {stdConnection}

=============================================================================
